---- MODULE Spec2Model ----
(***************************************************************************)
(* The session-scoped browser-automation workflow of the Swiggy scraper    *)
(* (backend/swiggy-scraper.js) behind its HTTP routes (backend/server.js). *)
(*                                                                         *)
(* Node runs the async functions cooperatively: a function runs without    *)
(* interruption from one `await` to the next.  Every action below is one   *)
(* such synchronous segment of one invocation: the completion of the       *)
(* awaited browser operation, the code up to the next browser operation,   *)
(* and the issuing of that operation.  Fixed pauses (waitForTimeout) are   *)
(* folded into the browser operation they follow, a selector chain is    *)
(* one segment with the click or fill on what it found, and so is the      *)
(* scroll loop: these touch only the page.                                 *)
(*                                                                         *)
(* `calls` is the bag of invocations in flight, each a record of its       *)
(* arguments, position and locals.  `last` is the invocation that returned *)
(* in the step just taken, with its response (IdleCall when the step       *)
(* returned nothing): a state with last # IdleCall is the state the        *)
(* caller finds at the moment of the return.                               *)
(*                                                                         *)
(* The `sessions` Map holds references to session objects.  A session      *)
(* object is created together with its browser, so both are identified by  *)
(* the browser's index in `objs`; an invocation that captured `session`    *)
(* keeps that reference after the Map entry is gone.                       *)
(***************************************************************************)
EXTENDS Naturals, Sequences, FiniteSets, Bags

VARIABLES sessions, objs, calls, last, page, hits, report, ui

vars == <<sessions, objs, calls, last, page, hits, report, ui>>

--------------------------------------------------------------------------
(* Bounds of the model *)

MaxCalls == 2

MaxBrowsers == 1

MaxSerialBrowsers == 2

MaxOtpCalls == 1

MaxAppends == 53

(* Program constants *)

DEBUG_LOG_LIMIT == 50

ScrollRounds == 5

--------------------------------------------------------------------------
(* Inputs *)

SessionIds == {"s1", "s2"}

NoId == "none"

MobileNumbers == {"9876543210"}

NoSession == 0

Outcomes == {"ok", "fail"}

--------------------------------------------------------------------------
(* Browser and session objects *)

NewBrowser == [state |-> "open", closeCalls |-> 0, removed |-> 0, hasSession |-> FALSE,
               mobile |-> "", debugLog |-> << >>, appended |-> << >>, otpCalls |-> 0,
               verified |-> FALSE]

(* The login of the session of browser b is complete: initSwiggyLogin     *)
(* returned needsOtp:false for it or a submitOTP for it returned success. *)
(* The code keeps no such mark; the model records it to state what the    *)
(* session has been through.                                              *)
Verified(st, b) == [st EXCEPT !.objs[b].verified = TRUE]

(* The text of a progress message (which step ran, what it found) is not *)
(* told apart: every such message is Trace.  The messages of the catch    *)
(* blocks, "Login error" and "Scraping error", keep their text.           *)
Trace == "trace"

(* A diagnostic entry: the message behind a timestamp prefix. *)
Entry(message) == [ts |-> "iso", message |-> message]

Messages(log) == [k \in 1..Len(log) |-> log[k].message]

(* The result of a browser operation on the page of object b, as the      *)
(* environment may decide it: a closed browser serves nothing.            *)
PageOutcomes(b) == IF objs[b].state = "closed" THEN {"fail"} ELSE Outcomes

(* State threaded through one synchronous segment. *)
Here == [sessions |-> sessions, objs |-> objs, threw |-> FALSE]

--------------------------------------------------------------------------
(* Diagnostic log *)

addDebug_createsEntry(st, sessionId, message) ==
    IF st.threw THEN st
    ELSE IF sessionId \notin DOMAIN st.sessions
    THEN [st EXCEPT !.sessions = [k \in DOMAIN st.sessions \cup {sessionId} |->
                                     IF k = sessionId THEN 1 ELSE st.sessions[k]]]
    ELSE LET b == st.sessions[sessionId]
             pushed == Append(st.objs[b].debugLog, Entry(message))
             log == IF Len(pushed) > DEBUG_LOG_LIMIT THEN Tail(pushed) ELSE pushed
         IN  [st EXCEPT !.objs[b].debugLog = log,
                        !.objs[b].appended = Append(@, message)]

addDebug_registers(st, sessionId, message) ==
    IF st.threw THEN st
    ELSE LET known == sessionId \in DOMAIN st.sessions
             b == IF known THEN st.sessions[sessionId]
                  ELSE CHOOSE x \in 1..(Cardinality(DOMAIN st.objs) + 1) : x \notin DOMAIN st.objs
             oo == [x \in DOMAIN st.objs \cup {b} |->
                      IF x \in DOMAIN st.objs THEN st.objs[x]
                      ELSE [NewBrowser EXCEPT !.hasSession = TRUE]]
             ss == [k \in DOMAIN st.sessions \cup {sessionId} |->
                      IF k = sessionId THEN b ELSE st.sessions[k]]
             pushed == Append(oo[b].debugLog, Entry(message))
             log == IF Len(pushed) > DEBUG_LOG_LIMIT THEN Tail(pushed) ELSE pushed
         IN  [st EXCEPT !.sessions = ss,
                        !.objs = [oo EXCEPT ![b].debugLog = log,
                                            ![b].appended = Append(@, message)]]

addDebug_noEviction(st, sessionId, message) ==
    IF st.threw THEN st
    ELSE IF sessionId \notin DOMAIN st.sessions THEN st
    ELSE LET b == st.sessions[sessionId]
         IN  [st EXCEPT !.objs[b].debugLog = Append(@, Entry(message)),
                        !.objs[b].appended = Append(@, message)]

addDebug_evictsNewest(st, sessionId, message) ==
    IF st.threw THEN st
    ELSE IF sessionId \notin DOMAIN st.sessions THEN st
    ELSE LET b == st.sessions[sessionId]
             pushed == Append(st.objs[b].debugLog, Entry(message))
             log == IF Len(pushed) > DEBUG_LOG_LIMIT
                    THEN SubSeq(pushed, 1, Len(pushed) - 1) ELSE pushed
         IN  [st EXCEPT !.objs[b].debugLog = log,
                        !.objs[b].appended = Append(@, message)]

addDebug(st, sessionId, message) ==
    IF st.threw THEN st
    ELSE IF sessionId \notin DOMAIN st.sessions THEN st
    ELSE LET b == st.sessions[sessionId]
             pushed == Append(st.objs[b].debugLog, Entry(message))
             log == IF Len(pushed) > DEBUG_LOG_LIMIT THEN Tail(pushed) ELSE pushed
         IN  [st EXCEPT !.objs[b].debugLog = log,
                        !.objs[b].appended = Append(@, message)]

(* A returned log is a fresh array (kind "copy") holding the entries of    *)
(* the moment; kind "ref" would be the session's own array.               *)
EmptyLog == [kind |-> "copy", val |-> << >>, obj |-> NoSession]

getDebugLog_alias(st, sessionId) ==
    IF sessionId \in DOMAIN st.sessions
    THEN [kind |-> "ref", val |-> << >>, obj |-> st.sessions[sessionId]]
    ELSE EmptyLog

getDebugLog(st, sessionId) ==
    IF sessionId \in DOMAIN st.sessions
    THEN [kind |-> "copy", val |-> st.objs[st.sessions[sessionId]].debugLog, obj |-> NoSession]
    ELSE EmptyLog

(* What a holder of a returned log reads from it now. *)
LogValue(lv) ==
    IF lv.kind = "copy" THEN lv.val
    ELSE IF lv.obj \in DOMAIN objs THEN objs[lv.obj].debugLog
    ELSE << >>

(* The rate limiters of server.js: the requests one client has made to    *)
(* each limited route in the current window.                              *)
LoginMax == 5

OtpMax == 10

NoHits == [login |-> 0, otp |-> 0]

(* No analysis request has been made. *)
NoReport == [orders |-> << >>, isArray |-> TRUE, offset |-> 0, startDate |-> << >>,
             endDate |-> << >>, done |-> FALSE, route |-> "", res |-> << >>]

(* The page of the frontend before it is opened. *)
NoUi == [loginStep |-> "initial", loading |-> FALSE, sessionId |-> "", hasOrders |-> FALSE,
         hasDates |-> FALSE, error |-> FALSE, issued |-> {}, pending |-> EmptyBag]

--------------------------------------------------------------------------
(* Session Store primitives and browser release *)

sessionsSet(st, sessionId, b, mobileNumber) ==
    [st EXCEPT !.sessions = [k \in DOMAIN st.sessions \cup {sessionId} |->
                                IF k = sessionId THEN b ELSE st.sessions[k]],
               !.objs[b].hasSession = TRUE,
               !.objs[b].mobile = mobileNumber]

sessionsDelete_clearsAll(st, sessionId) ==
    IF sessionId \in DOMAIN st.sessions
    THEN [st EXCEPT !.sessions = << >>,
                    !.objs[st.sessions[sessionId]].removed = @ + 1]
    ELSE st

sessionsDelete(st, sessionId) ==
    IF sessionId \in DOMAIN st.sessions
    THEN [st EXCEPT !.sessions = [k \in DOMAIN st.sessions \ {sessionId} |-> st.sessions[k]],
                    !.objs[st.sessions[sessionId]].removed = @ + 1]
    ELSE st

(* browser.close() is issued: the release begins. *)
browserClose(st, b) ==
    [st EXCEPT !.objs[b].closeCalls = @ + 1,
               !.objs[b].state = IF @ = "open" THEN "closing" ELSE @]

(* The release issued earlier ends, resolved ("ok") or rejected ("fail"). *)
closeSettled(st, b, out) ==
    [st EXCEPT !.objs[b].state = IF @ = "closing"
                                 THEN (IF out = "ok" THEN "closed" ELSE "closeFailed")
                                 ELSE @]

(* .catch(() => {}) on the promise of close(): a rejection is dropped.    *)
swallow_rethrows(out) == out

swallow(out) == "ok"

--------------------------------------------------------------------------
(* Invocations: one HTTP request and the scraper call it makes *)

NoRes == [status |-> 0, success |-> FALSE, needsOtp |-> FALSE, message |-> "",
          error |-> "", count |-> 0, orders |-> << >>, debugLog |-> EmptyLog]

IdleCall == [kind |-> "idle", id |-> NoId, pc |-> "idle", session |-> NoSession,
             browser |-> NoSession, closing |-> NoSession, i |-> 0, err |-> "",
             mobile |-> "", otp |-> "", clicks |-> 0, fills |-> 0, wasLive |-> FALSE,
             evaluated |-> FALSE, sawButton |-> FALSE, sawText |-> FALSE,
             sawInvalidOtp |-> FALSE, sawIncorrect |-> FALSE, extracted |-> << >>,
             found |-> {}, onOrdersPage |-> FALSE, navigated |-> FALSE, rounds |-> 0,
             extractions |-> 0, logAtCall |-> << >>, res |-> NoRes]

(* The call once the chain called name has been resolved. *)
Resolve(rec, name, found) == IF found THEN [rec EXCEPT !.found = @ \cup {name}] ELSE rec

NewCall(kind, id) == [IdleCall EXCEPT !.kind = kind, !.id = id]

(* res.json(result) of a route: the scraper's value with status 200. *)
Json(success, message, debugLog) ==
    [NoRes EXCEPT !.status = 200, !.success = success, !.message = message,
                  !.debugLog = debugLog]

(* res.status(400) of a route's validation. *)
BadRequest == [NoRes EXCEPT !.status = 400, !.message = "required"]

(* res.status(429) of a route's rate limiter. *)
TooManyRequests == [NoRes EXCEPT !.status = 429, !.message = "too many"]

(* res.status(500) of a route's catch: the scraper call threw. *)
ServerError == [NoRes EXCEPT !.status = 500, !.message = "threw"]

Finish(rec, res) == [rec EXCEPT !.pc = "done", !.res = res, !.i = 0, !.err = ""]

(* The objects some Map entry, some invocation in flight or the           *)
(* invocation that just returned refers to.  A browser nothing refers to  *)
(* any more and that was closed is gone, and its index is free again; one *)
(* that was not closed stays, as a process nobody can reach.               *)
Reachable(ss, cs, rec) ==
    ({ss[k] : k \in DOMAIN ss} \cup
     UNION {{x.session, x.browser, x.closing} : x \in BagToSet(cs) \cup {rec}})
    \ {NoSession}

Collect(oo, live) ==
    [b \in {x \in DOMAIN oo : x \in live \/ oo[x].state # "closed"} |->
        IF b \in live THEN oo[b]
        ELSE [NewBrowser EXCEPT !.state = oo[b].state]]

FreeIndex(oo) == CHOOSE b \in 1..(Cardinality(DOMAIN oo) + 1) :
                    b \notin DOMAIN oo /\ \A x \in 1..(b - 1) : x \in DOMAIN oo

(* The segment of invocation r ends in state st with r become rec; r is   *)
(* IdleCall when the segment is the first of a new invocation.            *)
Set(st, r, rec) ==
    LET rest == IF r = IdleCall THEN calls ELSE calls (-) SetToBag({r})
        next == IF rec.pc = "done" THEN rest ELSE rest (+) SetToBag({rec})
    IN  /\ sessions' = st.sessions
        /\ objs' = Collect(st.objs, Reachable(st.sessions, next, rec))
        /\ calls' = next
        /\ last' = IF rec.pc = "done" THEN rec ELSE IdleCall
        /\ page' = page
        /\ report' = report
        /\ ui' = ui

InFlight == BagToSet(calls)

(* A request can be accepted. *)
Free == BagCardinality(calls) < MaxCalls

At(r, kind, pc) == r.kind = kind /\ r.pc = pc

--------------------------------------------------------------------------
(* cleanupSession behind POST /api/swiggy/cancel-session *)

cancelStart_skipsClose(id) ==
    /\ LET rec == NewCall("cancel", id)
       IN  IF id = NoId
           THEN Set(Here, IdleCall, Finish(rec, BadRequest))
           ELSE IF id \in DOMAIN sessions
           THEN Set(sessionsDelete(Here, id), IdleCall,
                    Finish([rec EXCEPT !.session = sessions[id], !.wasLive = TRUE],
                           Json(TRUE, "Session cleaned up", EmptyLog)))
           ELSE Set(Here, IdleCall, Finish(rec, Json(TRUE, "Session cleaned up", EmptyLog)))

cancelStart(id) ==
    /\ LET rec == NewCall("cancel", id)
       IN  IF id = NoId
           THEN Set(Here, IdleCall, Finish(rec, BadRequest))
           ELSE IF id \in DOMAIN sessions
           THEN Set(browserClose(Here, sessions[id]), IdleCall,
                    [rec EXCEPT !.pc = "close", !.session = sessions[id],
                                !.closing = sessions[id], !.wasLive = TRUE])
           ELSE Set(Here, IdleCall, Finish(rec, Json(TRUE, "Session cleaned up", EmptyLog)))

cancelClosed_rethrows(r) ==
    /\ At(r, "cancel", "close")
    /\ \E out \in Outcomes :
         LET st1 == closeSettled(Here, r.closing, out)
         IN  IF out = "fail"
             THEN Set(st1, r, Finish(r, ServerError))
             ELSE Set(sessionsDelete(st1, r.id), r,
                      Finish(r, Json(TRUE, "Session cleaned up", EmptyLog)))

cancelClosed(r) ==
    /\ At(r, "cancel", "close")
    /\ \E out \in Outcomes :
         LET st1 == closeSettled(Here, r.closing, out)
         IN  IF swallow(out) = "fail"
             THEN Set(st1, r, Finish(r, ServerError))
             ELSE Set(sessionsDelete(st1, r.id), r,
                      Finish(r, Json(TRUE, "Session cleaned up", EmptyLog)))

--------------------------------------------------------------------------
(* The extraction that scrapeOrders evaluates in the page, on the rendered *)
(* text of one element.  A text is a sequence of characters, each a       *)
(* one-character string; Rupee stands for the sign U+20B9.                *)

Rupee == "Rs"

Digits == <<"0", "1", "2", "3", "4", "5", "6", "7", "8", "9">>

IsDigit(c) == \E k \in 1..10 : Digits[k] = c

DigitValue(c) == (CHOOSE k \in 1..10 : Digits[k] = c) - 1

(* \s of the two patterns. *)
IsSpace(c) == c \in {" ", "\t", "\n"}

Uppers == <<"A", "B", "C", "D", "E", "F", "G", "J", "L", "M", "N", "O", "P", "R",
            "S", "T", "U", "V", "Y">>

Lowers == <<"a", "b", "c", "d", "e", "f", "g", "j", "l", "m", "n", "o", "p", "r",
            "s", "t", "u", "v", "y">>

(* The i flag of the date pattern: letters compare without case. *)
toUpperCase(c) ==
    IF \E k \in 1..Len(Lowers) : Lowers[k] = c
    THEN Uppers[CHOOSE k \in 1..Len(Lowers) : Lowers[k] = c]
    ELSE c

MonthNames == <<<<"J", "A", "N">>, <<"F", "E", "B">>, <<"M", "A", "R">>, <<"A", "P", "R">>,
                <<"M", "A", "Y">>, <<"J", "U", "N">>, <<"J", "U", "L">>, <<"A", "U", "G">>,
                <<"S", "E", "P">>, <<"O", "C", "T">>, <<"N", "O", "V">>, <<"D", "E", "C">>>>

NoMatch == [matched |-> FALSE, group |-> << >>]

RECURSIVE digitsEnd(_, _)
(* \d*: the index after the digits that start at i. *)
digitsEnd(t, i) ==
    IF i <= Len(t) /\ IsDigit(t[i]) THEN digitsEnd(t, i + 1) ELSE i

RECURSIVE spacesEnd(_, _)
(* \s*: the index after the white space that starts at i. *)
spacesEnd(t, i) ==
    IF i <= Len(t) /\ IsSpace(t[i]) THEN spacesEnd(t, i + 1) ELSE i

RECURSIVE groupsEnd(_, _)
(* (?:,\d+)*: the index after the comma groups that start at i. *)
groupsEnd(t, i) ==
    IF i < Len(t) /\ t[i] = "," /\ IsDigit(t[i + 1])
    THEN groupsEnd(t, digitsEnd(t, i + 1))
    ELSE i

(* (?:\.\d+)?: the index after the decimal part that starts at i. *)
fractionEnd(t, i) ==
    IF i < Len(t) /\ t[i] = "." /\ IsDigit(t[i + 1]) THEN digitsEnd(t, i + 1) ELSE i

(* The amount pattern tried at index i. *)
amountMatchAt(t, i) ==
    IF t[i] # Rupee THEN NoMatch
    ELSE LET j == spacesEnd(t, i + 1)
             e == fractionEnd(t, groupsEnd(t, digitsEnd(t, j)))
         IN  IF digitsEnd(t, j) = j THEN NoMatch
             ELSE [matched |-> TRUE, group |-> SubSeq(t, j, e - 1)]

RECURSIVE amountMatchFrom(_, _)
amountMatchFrom(t, i) ==
    IF i > Len(t) THEN NoMatch
    ELSE IF amountMatchAt(t, i).matched THEN amountMatchAt(t, i)
    ELSE amountMatchFrom(t, i + 1)

(* text.match(/Rupee\s*(\d+(?:,\d+)*(?:\.\d+)?)/): the first match. *)
amountMatch(t) == amountMatchFrom(t, 1)

replaceCommas_keeps(s) == s

(* .replace(/,/g, '') *)
replaceCommas(s) == SelectSeq(s, LAMBDA c : c # ",")

(* A number: its integer part and the digits of its decimal part without  *)
(* trailing zeros; null when there is none.                               *)
NullNumber == [isNull |-> TRUE, int |-> 0, frac |-> << >>]

RECURSIVE digitsValue(_, _)
digitsValue(s, acc) ==
    IF s = << >> THEN acc ELSE digitsValue(Tail(s), 10 * acc + DigitValue(Head(s)))

RECURSIVE dropZeros(_)
dropZeros(s) ==
    IF s # << >> /\ s[Len(s)] = "0" THEN dropZeros(SubSeq(s, 1, Len(s) - 1)) ELSE s

(* parseFloat: the longest numeric prefix of s. *)
parseFloat(s) ==
    LET e == digitsEnd(s, 1)
        f == fractionEnd(s, e)
    IN  IF e = 1 THEN NullNumber
        ELSE [isNull |-> FALSE, int |-> digitsValue(SubSeq(s, 1, e - 1), 0),
              frac |-> [k \in 1..Len(dropZeros(SubSeq(s, e + 1, f - 1))) |->
                           DigitValue(dropZeros(SubSeq(s, e + 1, f - 1))[k])]]

(* The month whose name the three letters at i spell, 0 when none. *)
monthAt(t, i) ==
    IF i + 2 > Len(t) THEN 0
    ELSE LET w == <<toUpperCase(t[i]), toUpperCase(t[i + 1]), toUpperCase(t[i + 2])>>
         IN  IF \E m \in 1..12 : MonthNames[m] = w
             THEN CHOOSE m \in 1..12 : MonthNames[m] = w
             ELSE 0

(* The date pattern tried at index i with k digits for the day. *)
dateMatchWith(t, i, k) ==
    LET j == spacesEnd(t, i + k)
        y == spacesEnd(t, j + 3)
    IN  IF /\ i + k - 1 <= Len(t)
           /\ \A x \in i..(i + k - 1) : IsDigit(t[x])
           /\ j > i + k
           /\ monthAt(t, j) # 0
           /\ y > j + 3
           /\ y + 3 <= Len(t)
           /\ \A x \in y..(y + 3) : IsDigit(t[x])
        THEN [matched |-> TRUE, group |-> SubSeq(t, i, y + 3)]
        ELSE NoMatch

(* \d{1,2} is greedy: two digits first, then one. *)
dateMatchAt(t, i) ==
    IF dateMatchWith(t, i, 2).matched THEN dateMatchWith(t, i, 2)
    ELSE dateMatchWith(t, i, 1)

RECURSIVE dateMatchFrom(_, _)
dateMatchFrom(t, i) ==
    IF i > Len(t) THEN NoMatch
    ELSE IF dateMatchAt(t, i).matched THEN dateMatchAt(t, i)
    ELSE dateMatchFrom(t, i + 1)

(* text.match(/(\d{1,2}\s+(?:Jan|...|Dec)\s+\d{4})/i): the first match. *)
dateMatch(t) == dateMatchFrom(t, 1)

IsLeap(y) == (y % 4 = 0 /\ y % 100 # 0) \/ y % 400 = 0

DaysInMonth(y, m) ==
    IF m = 2 THEN (IF IsLeap(y) THEN 29 ELSE 28)
    ELSE IF m \in {4, 6, 9, 11} THEN 30 ELSE 31

(* new Date("D Mon YYYY") in the browser: midnight of that day in the     *)
(* zone of the host; a day of 1..31 beyond the month's end rolls into the *)
(* next month, any other day gives an invalid Date.                       *)
newDate(s) ==
    LET e == digitsEnd(s, 1)
        d == digitsValue(SubSeq(s, 1, e - 1), 0)
        j == spacesEnd(s, e)
        m == monthAt(s, j)
        y == digitsValue(SubSeq(s, Len(s) - 3, Len(s)), 0)
    IN  IF d < 1 \/ d > 31 THEN [valid |-> FALSE, y |-> 0, m |-> 0, d |-> 0]
        ELSE IF d <= DaysInMonth(y, m) THEN [valid |-> TRUE, y |-> y, m |-> m, d |-> d]
        ELSE [valid |-> TRUE, y |-> y, m |-> m + 1, d |-> d - DaysInMonth(y, m)]

(* The digits of n in w places. *)
pad(n, w) == [k \in 1..w |-> Digits[((n \div (10 ^ (w - k))) % 10) + 1]]

(* date.toISOString(): the instant in UTC.  offset is the minutes the     *)
(* host's zone is ahead of UTC, so local midnight is the day before in    *)
(* UTC when offset > 0.                                                   *)
toISOString(date, offset) ==
    LET back == offset > 0
        y == IF back /\ date.d = 1 /\ date.m = 1 THEN date.y - 1 ELSE date.y
        m == IF back /\ date.d = 1 THEN (IF date.m = 1 THEN 12 ELSE date.m - 1) ELSE date.m
        d == IF back THEN (IF date.d = 1 THEN DaysInMonth(y, m) ELSE date.d - 1) ELSE date.d
        t == IF back THEN 1440 - offset ELSE 0 - offset
    IN  pad(y, 4) \o <<"-">> \o pad(m, 2) \o <<"-">> \o pad(d, 2)
            \o <<"T">> \o pad(t \div 60, 2) \o <<":">> \o pad(t % 60, 2)

RECURSIVE indexOf(_, _, _)
indexOf(s, c, i) ==
    IF i > Len(s) THEN 0 ELSE IF s[i] = c THEN i ELSE indexOf(s, c, i + 1)

(* s.split(c)[0] *)
splitFirst(s, c) ==
    IF indexOf(s, c, 1) = 0 THEN s ELSE SubSeq(s, 1, indexOf(s, c, 1) - 1)

RECURSIVE split(_, _)
(* s.split(c) *)
split(s, c) ==
    IF indexOf(s, c, 1) = 0 THEN <<s>>
    ELSE <<SubSeq(s, 1, indexOf(s, c, 1) - 1)>> \o split(SubSeq(s, indexOf(s, c, 1) + 1, Len(s)), c)

RECURSIVE trimStart(_)
trimStart(s) == IF s # << >> /\ IsSpace(Head(s)) THEN trimStart(Tail(s)) ELSE s

RECURSIVE trimEnd(_)
trimEnd(s) ==
    IF s # << >> /\ IsSpace(s[Len(s)]) THEN trimEnd(SubSeq(s, 1, Len(s) - 1)) ELSE s

trim(s) == trimEnd(trimStart(s))

Unknown == <<"U", "n", "k", "n", "o", "w", "n">>

restaurant_firstLine(text) ==
    LET lines == split(text, "\n")
    IN  IF Len(lines) > 0 THEN lines[1] ELSE Unknown

(* text.split('\n').filter(l => l.trim()), its first line or 'Unknown'. *)
restaurant(text) ==
    LET lines == SelectSeq(split(text, "\n"), LAMBDA l : trim(l) # << >>)
    IN  IF Len(lines) > 0 THEN lines[1] ELSE Unknown

(* The body of the forEach for one element: what it computed, whether it  *)
(* threw (the catch then skips the element), and the records it pushed.   *)
extractElement(text, offset) ==
    LET amountM == amountMatch(text)
        amount == IF amountM.matched THEN parseFloat(replaceCommas(amountM.group))
                  ELSE NullNumber
        dateM == dateMatch(text)
        parsed == newDate(dateM.group)
        threw == dateM.matched /\ ~parsed.valid
        date == IF dateM.matched /\ parsed.valid
                THEN splitFirst(toISOString(parsed, offset), "T")
                ELSE << >>
        name == IF threw THEN << >> ELSE restaurant(text)
        truthy == ~amount.isNull /\ (amount.int # 0 \/ amount.frac # << >>) /\ date # << >>
    IN  [threw |-> threw, amount |-> amount, date |-> date, restaurant |-> name,
         pushed |-> IF ~threw /\ truthy
                    THEN <<[date |-> date, amount |-> amount, restaurant |-> trim(name)]>>
                    ELSE << >>]

RECURSIVE extractOrders_unshift(_, _)
extractOrders_unshift(texts, offset) ==
    IF texts = << >> THEN << >>
    ELSE extractOrders_unshift(Tail(texts), offset) \o extractElement(Head(texts), offset).pushed

RECURSIVE extractOrders(_, _)
(* orderElements.forEach(...): the records of the elements in order. *)
extractOrders(texts, offset) ==
    IF texts = << >> THEN << >>
    ELSE extractElement(Head(texts), offset).pushed \o extractOrders(Tail(texts), offset)

(* The page of the harness below: the elements the document holds, the    *)
(* zone of the host, the answers the page gives to the lookups of one     *)
(* chain, and what the code computed from them.                           *)
NoChain == [match |-> 0, asked |-> {}, threw |-> FALSE]

NoPage == [elements |-> << >>, offset |-> 0, outs |-> << >>, done |-> FALSE,
           extracted |-> << >>, orders |-> << >>, chain |-> NoChain]

--------------------------------------------------------------------------
(* scrapeOrders behind POST /api/swiggy/scrape-orders *)

Order1 == [date |-> "2024-03-15", amount |-> 250, restaurant |-> "A"]

Order2 == [date |-> "2024-04-02", amount |-> 120, restaurant |-> "B"]

OrderLists == {<< >>, <<Order1>>, <<Order1, Order2>>}

ScrapeFailed(err, debugLog) ==
    [Json(FALSE, "Scraping failed", debugLog) EXCEPT !.error = err]

ScrapeResult_emptySucceeds(orders, debugLog) ==
    [Json(TRUE, "Successfully scraped", debugLog) EXCEPT
         !.orders = orders, !.count = Len(orders)]

ScrapeResult(orders, debugLog) ==
    IF Len(orders) = 0
    THEN Json(FALSE, "No orders found", debugLog)
    ELSE [Json(TRUE, "Successfully scraped", debugLog) EXCEPT
              !.orders = orders, !.count = Len(orders)]

(* The catch block of scrapeOrders. *)
scrapeCatch(r, st, rec, err) ==
    LET st1 == addDebug(st, rec.id, "Scraping error")
        debugLog == getDebugLog(st1, rec.id)
    IN  IF st1.threw
        THEN Set(st1, r, Finish(rec, ServerError))
        ELSE IF rec.id \in DOMAIN st1.sessions
        THEN Set(browserClose(st1, st1.sessions[rec.id]), r,
                 [rec EXCEPT !.pc = "catchClose", !.closing = st1.sessions[rec.id],
                             !.err = err, !.i = 0, !.res = ScrapeFailed(err, debugLog)])
        ELSE Set(st1, r, Finish(rec, ScrapeFailed(err, debugLog)))

(* The rest of a segment of the try block: on to the next await, or into  *)
(* the catch block when the segment threw.                                *)
scrapeTry(r, st, rec) ==
    IF st.threw
    THEN scrapeCatch(r, [st EXCEPT !.threw = FALSE], rec, "TypeError")
    ELSE Set(st, r, rec)

scrapeStart_noValidation(id) ==
    /\ LET rec == NewCall("scrape", id)
       IN  IF id \notin DOMAIN sessions
           THEN Set(Here, IdleCall, Finish(rec, Json(FALSE, "Session not found or expired", EmptyLog)))
           ELSE \E onOrdersPage \in BOOLEAN :
                  LET live == [rec EXCEPT !.session = sessions[id], !.wasLive = TRUE,
                                          !.onOrdersPage = onOrdersPage]
                  IN  IF onOrdersPage
                      THEN scrapeTry(IdleCall, addDebug(Here, id, Trace),
                                     [live EXCEPT !.pc = "scroll"])
                      ELSE Set(Here, IdleCall, [live EXCEPT !.pc = "goto", !.navigated = TRUE])

scrapeStart(id) ==
    /\ LET rec == NewCall("scrape", id)
       IN  IF id = NoId
           THEN Set(Here, IdleCall, Finish(rec, BadRequest))
           ELSE IF id \notin DOMAIN sessions
           THEN Set(Here, IdleCall, Finish(rec, Json(FALSE, "Session not found or expired", EmptyLog)))
           ELSE \E onOrdersPage \in BOOLEAN :
                  LET live == [rec EXCEPT !.session = sessions[id], !.wasLive = TRUE,
                                          !.onOrdersPage = onOrdersPage]
                  IN  IF onOrdersPage
                      THEN scrapeTry(IdleCall, addDebug(Here, id, Trace),
                                     [live EXCEPT !.pc = "scroll"])
                      ELSE Set(Here, IdleCall, [live EXCEPT !.pc = "goto", !.navigated = TRUE])

scrapeGoto(r) ==
    /\ At(r, "scrape", "goto")
    /\ \E out \in PageOutcomes(r.session) :
         IF out = "ok"
         THEN scrapeTry(r, addDebug(Here, r.id, Trace),
                        [r EXCEPT !.pc = "scroll"])
         ELSE scrapeCatch(r, Here, r, "page error")

RECURSIVE scrollLoop_fourRounds(_, _)
scrollLoop_fourRounds(outs, i) ==
    IF i < ScrollRounds - 1
    THEN IF outs[i + 1] = "ok" THEN scrollLoop_fourRounds(outs, i + 1)
         ELSE [i |-> i, threw |-> TRUE]
    ELSE [i |-> i, threw |-> FALSE]

RECURSIVE scrollLoop(_, _)
(* for (let i = 0; i < 5; i++) { scroll; pause }: outs[k] is the outcome  *)
(* of round k; the loop ends after ScrollRounds rounds or at the first    *)
(* round that throws.                                                      *)
scrollLoop(outs, i) ==
    IF i < ScrollRounds
    THEN IF outs[i + 1] = "ok" THEN scrollLoop(outs, i + 1)
         ELSE [i |-> i, threw |-> TRUE]
    ELSE [i |-> i, threw |-> FALSE]

(* The scroll loop; its exit issues the extraction. *)
scrapeScroll(r) ==
    /\ At(r, "scrape", "scroll")
    /\ \E loop \in {scrollLoop(outs, 0) : outs \in [1..ScrollRounds -> PageOutcomes(r.session)]} :
         IF loop.threw
         THEN scrapeCatch(r, Here, [r EXCEPT !.rounds = loop.i], "page error")
         ELSE scrapeTry(r, addDebug(Here, r.id, Trace),
                        [r EXCEPT !.i = loop.i, !.rounds = loop.i, !.pc = "extract"])

scrapeExtract(r) ==
    /\ At(r, "scrape", "extract")
    /\ \E out \in PageOutcomes(r.session) :
         IF out = "fail"
         THEN scrapeCatch(r, Here, r, "page error")
         ELSE \E orders \in OrderLists :
                LET st1 == addDebug(Here, r.id, Trace)
                    debugLog == getDebugLog(st1, r.id)
                IN  IF st1.threw
                    THEN scrapeTry(r, st1, [r EXCEPT !.extractions = @ + 1])
                    ELSE Set(browserClose(st1, r.session), r,
                             [r EXCEPT !.pc = "close", !.closing = r.session,
                                              !.extracted = orders,
                                              !.extractions = @ + 1,
                                              !.res = ScrapeResult(orders, debugLog)])

scrapeClosed_keepsEntry(r) ==
    /\ At(r, "scrape", "close")
    /\ \E out \in Outcomes :
         LET st1 == closeSettled(Here, r.closing, out)
         IN  Set(IF out = "ok" THEN sessionsDelete(st1, r.id) ELSE st1, r,
                 Finish(r, r.res))

scrapeClosed(r) ==
    /\ At(r, "scrape", "close")
    /\ \E out \in Outcomes :
         LET st1 == closeSettled(Here, r.closing, out)
         IN  IF swallow(out) = "fail"
             THEN scrapeCatch(r, st1, r, "close failed")
             ELSE Set(sessionsDelete(st1, r.id), r, Finish(r, r.res))

scrapeCatchClosed(r) ==
    /\ At(r, "scrape", "catchClose")
    /\ \E out \in Outcomes :
         LET st1 == closeSettled(Here, r.closing, out)
         IN  IF swallow(out) = "fail"
             THEN Set(st1, r, Finish(r, ServerError))
             ELSE Set(sessionsDelete(st1, r.id), r, Finish(r, r.res))

--------------------------------------------------------------------------
(* Ordered selector fallback chains *)

LookupOutcomes == {"elem", "null", "throw"}

lookup_rethrows(out) == out

(* page.$(selector).catch(() => null): a lookup that throws yields null. *)
lookup(out) == IF out = "elem" THEN "elem" ELSE "null"

RECURSIVE firstMatchFrom(_, _)
(* a || b || c over the lookups outs[k..]: the index of the first one     *)
(* that yields an element, 0 when none does.                              *)
firstMatchFrom(outs, k) ==
    IF k > Len(outs) THEN 0
    ELSE IF lookup(outs[k]) = "elem" THEN k
    ELSE firstMatchFrom(outs, k + 1)

firstMatch(outs) == firstMatchFrom(outs, 1)

Chains(n) == [1..n -> LookupOutcomes]

(* Whether a chain of n selectors yields an element, over every way the   *)
(* page may answer its lookups.                                            *)
Found(n) == {firstMatch(outs) # 0 : outs \in Chains(n)}

RECURSIVE evalChain(_, _, _)
(* await a || await b || ... from the k-th lookup on: the index of the    *)
(* lookup whose element the chain yields (0 when none), the lookups it    *)
(* made, and whether one of them threw out of the chain.                  *)
evalChain(outs, k, asked) ==
    IF k > Len(outs) THEN [match |-> 0, asked |-> asked, threw |-> FALSE]
    ELSE IF lookup(outs[k]) = "throw"
         THEN [match |-> 0, asked |-> asked \cup {k}, threw |-> TRUE]
    ELSE IF lookup(outs[k]) = "elem"
         THEN [match |-> k, asked |-> asked \cup {k}, threw |-> FALSE]
    ELSE evalChain(outs, k + 1, asked \cup {k})

--------------------------------------------------------------------------
(* initSwiggyLogin behind POST /api/swiggy/login *)

LoginFailed(err, debugLog) ==
    [Json(FALSE, "Login failed", debugLog) EXCEPT !.error = err]

LoginOk(needsOtp, message, debugLog) ==
    [Json(TRUE, message, debugLog) EXCEPT !.needsOtp = needsOtp]

isLoggedIn_either(hasLoginButton, textHasLogin) == ~hasLoginButton \/ ~textHasLogin

(* The "already authenticated" signal evaluated in the page. *)
isLoggedIn(hasLoginButton, textHasLogin) == ~hasLoginButton /\ ~textHasLogin

(* The catch block of initSwiggyLogin. *)
loginCatch(r, st, rec, err) ==
    LET st1 == addDebug(st, rec.id, "Login error")
        debugLog == getDebugLog(st1, rec.id)
    IN  IF st1.threw
        THEN Set(st1, r, Finish(rec, ServerError))
        ELSE IF rec.id \in DOMAIN st1.sessions
        THEN Set(browserClose(st1, st1.sessions[rec.id]), r,
                 [rec EXCEPT !.pc = "catchClose", !.closing = st1.sessions[rec.id],
                             !.err = err, !.res = LoginFailed(err, debugLog)])
        ELSE Set(st1, r, Finish(rec, LoginFailed(err, debugLog)))

loginTry(r, st, rec) ==
    IF st.threw
    THEN loginCatch(r, [st EXCEPT !.threw = FALSE], rec, "TypeError")
    ELSE Set(st, r, rec)

(* The launches in progress. *)
Launching ==
    LET S == {r \in InFlight : At(r, "login", "launch")}
    IN  BagCardinality([r \in S |-> calls[r]])

(* The route validates, generates the session id and calls               *)
(* initSwiggyLogin, which issues the browser launch.                      *)
loginStart(mobileNumber, sessionId) ==
    /\ IF mobileNumber = ""
       THEN Set(Here, IdleCall, Finish(NewCall("login", NoId), BadRequest))
       ELSE Set(Here, IdleCall, [NewCall("login", sessionId) EXCEPT
                                    !.pc = "launch", !.mobile = mobileNumber])

loginLaunched(r) ==
    /\ At(r, "login", "launch")
    /\ \E out \in Outcomes :
         IF out = "ok"
         THEN LET b == FreeIndex(objs)
              IN  Set([Here EXCEPT !.objs = [x \in DOMAIN objs \cup {b} |->
                                               IF x = b THEN NewBrowser ELSE objs[x]]],
                      r, [r EXCEPT !.pc = "context", !.browser = b])
         ELSE loginCatch(r, Here, r, "launch failed")

(* newContext and newPage done: the session is stored, the navigation     *)
(* issued.                                                                 *)
loginContext(r) ==
    /\ At(r, "login", "context")
    /\ \E out \in PageOutcomes(r.browser) :
         IF out = "ok"
         THEN LET st1 == sessionsSet(Here, r.id, r.browser, r.mobile)
                  st2 == addDebug(st1, r.id, Trace)
                  st3 == addDebug(st2, r.id, Trace)
              IN  loginTry(r, st3, [r EXCEPT !.pc = "goto", !.session = r.browser])
         ELSE loginCatch(r, Here, r, "page error")

loginGoto(r) ==
    /\ At(r, "login", "goto")
    /\ \E out \in PageOutcomes(r.browser) :
         IF out = "ok"
         THEN loginTry(r, addDebug(Here, r.id, Trace),
                       [r EXCEPT !.pc = "eval"])
         ELSE loginCatch(r, Here, r, "page error")

loginEval(r) ==
    /\ At(r, "login", "eval")
    /\ \E out \in PageOutcomes(r.browser) :
         IF out = "fail"
         THEN loginCatch(r, Here, r, "page error")
         ELSE \E hasLoginButton \in BOOLEAN, textHasLogin \in BOOLEAN :
                LET rec == [r EXCEPT !.evaluated = TRUE,
                                     !.sawButton = hasLoginButton,
                                     !.sawText = textHasLogin]
                    st1 == addDebug(Here, rec.id, Trace)
                IN  IF st1.threw
                    THEN loginTry(r, st1, rec)
                    ELSE IF isLoggedIn(hasLoginButton, textHasLogin)
                    THEN Set(Verified(st1, r.browser), r,
                             Finish(rec, LoginOk(FALSE, "Already logged in",
                                                 getDebugLog(st1, rec.id))))
                    ELSE Set(st1, r, [rec EXCEPT !.pc = "loginButton"])

(* The login-entry-point chain, and the click on what it found. *)
loginButton(r) ==
    /\ At(r, "login", "loginButton")
    /\ \E found \in Found(3) :
         LET st1 == addDebug(Here, r.id, Trace)
             rec == Resolve(r, "loginButton", found)
         IN  IF ~found \/ st1.threw
             THEN loginTry(r, st1, [rec EXCEPT !.pc = "mobileInput"])
             ELSE \E out \in PageOutcomes(r.browser) :
                    IF out = "ok"
                    THEN Set(st1, r, [rec EXCEPT !.pc = "mobileInput", !.clicks = @ + 1])
                    ELSE loginCatch(r, st1, rec, "page error")

(* The mobile-number input chain, and the fill of what it found. *)
mobileInput(r) ==
    /\ At(r, "login", "mobileInput")
    /\ \E found \in Found(4) :
         LET st1 == addDebug(Here, r.id, Trace)
             rec == Resolve(r, "mobileInput", found)
         IN  IF st1.threw
             THEN loginTry(r, st1, rec)
             ELSE IF ~found
             THEN loginCatch(r, st1, rec, "Could not find mobile number input field")
             ELSE \E out \in PageOutcomes(r.browser) :
                    IF out = "ok"
                    THEN Set(st1, r, [rec EXCEPT !.pc = "continueButton", !.fills = @ + 1])
                    ELSE loginCatch(r, st1, rec, "page error")

(* The continue/send-code chain, the click on what it found, the return.  *)
continueButton_missingIsFatal(r) ==
    /\ At(r, "login", "continueButton")
    /\ \E found \in Found(3) :
         LET st1 == addDebug(Here, r.id, Trace)
             rec == Resolve(r, "continueButton", found)
         IN  IF st1.threw
             THEN loginTry(r, st1, rec)
             ELSE IF ~found
             THEN loginCatch(r, st1, rec, "Could not find continue button")
             ELSE \E out \in PageOutcomes(r.browser) :
                    IF out = "ok"
                    THEN Set(st1, r, Finish([rec EXCEPT !.clicks = @ + 1],
                                            LoginOk(TRUE, "OTP sent", getDebugLog(st1, r.id))))
                    ELSE loginCatch(r, st1, rec, "page error")

continueButton(r) ==
    /\ At(r, "login", "continueButton")
    /\ \E found \in Found(3) :
         LET st1 == addDebug(Here, r.id, Trace)
             rec == Resolve(r, "continueButton", found)
         IN  IF st1.threw
             THEN loginTry(r, st1, rec)
             ELSE IF ~found
             THEN Set(st1, r, Finish(rec, LoginOk(TRUE, "OTP sent", getDebugLog(st1, r.id))))
             ELSE \E out \in PageOutcomes(r.browser) :
                    IF out = "ok"
                    THEN Set(st1, r, Finish([rec EXCEPT !.clicks = @ + 1],
                                            LoginOk(TRUE, "OTP sent", getDebugLog(st1, r.id))))
                    ELSE loginCatch(r, st1, rec, "page error")

loginCatchClosed(r) ==
    /\ At(r, "login", "catchClose")
    /\ \E out \in Outcomes :
         LET st1 == closeSettled(Here, r.closing, out)
         IN  IF swallow(out) = "fail"
             THEN Set(st1, r, Finish(r, ServerError))
             ELSE Set(sessionsDelete(st1, r.id), r, Finish(r, r.res))

--------------------------------------------------------------------------
(* submitOTP behind POST /api/swiggy/submit-otp *)

OtpFailed(err, debugLog) ==
    [Json(FALSE, "OTP verification failed", debugLog) EXCEPT !.error = err]

otpCatch_rethrows(r, st, rec, err) ==
    Set(st, r, Finish(rec, ServerError))

otpCatch_destroys(r, st, rec, err) ==
    Set(sessionsDelete(st, rec.id), r, Finish(rec, OtpFailed(err, getDebugLog(st, rec.id))))

(* The catch block of submitOTP: no release, no removal. *)
otpCatch(r, st, rec, err) ==
    Set(st, r, Finish(rec, OtpFailed(err, getDebugLog(st, rec.id))))

otpTry(r, st, rec) ==
    IF st.threw
    THEN otpCatch(r, [st EXCEPT !.threw = FALSE], rec, "TypeError")
    ELSE Set(st, r, rec)

loginSuccess_onlyInvalidOtp(textHasInvalidOtp, textHasIncorrect) == ~textHasInvalidOtp

loginSuccess(textHasInvalidOtp, textHasIncorrect) == ~textHasInvalidOtp /\ ~textHasIncorrect

otpStart_noGuard(id, otp) ==
    /\ LET rec == [NewCall("otp", id) EXCEPT !.otp = otp]
       IN  IF id = NoId \/ otp = ""
           THEN Set(Here, IdleCall, Finish(rec, BadRequest))
           ELSE IF id \notin DOMAIN sessions
           THEN otpCatch(IdleCall, Here, rec, "TypeError")
           ELSE /\ objs[sessions[id]].otpCalls < MaxOtpCalls
                /\ otpTry(IdleCall, addDebug([Here EXCEPT !.objs[sessions[id]].otpCalls = @ + 1],
                                      id, Trace),
                          [rec EXCEPT !.pc = "otpInput", !.session = sessions[id],
                                      !.wasLive = TRUE])

otpStart(id, otp) ==
    /\ LET rec == [NewCall("otp", id) EXCEPT !.otp = otp]
       IN  IF id = NoId \/ otp = ""
           THEN Set(Here, IdleCall, Finish(rec, BadRequest))
           ELSE IF id \notin DOMAIN sessions
           THEN Set(Here, IdleCall, Finish(rec, Json(FALSE, "Session not found or expired", EmptyLog)))
           ELSE /\ objs[sessions[id]].otpCalls < MaxOtpCalls
                /\ otpTry(IdleCall, addDebug([Here EXCEPT !.objs[sessions[id]].otpCalls = @ + 1],
                                      id, Trace),
                          [rec EXCEPT !.pc = "otpInput", !.session = sessions[id],
                                      !.wasLive = TRUE])

(* The OTP input chain, and the fill of what it found. *)
otpInput(r) ==
    /\ At(r, "otp", "otpInput")
    /\ \E found \in Found(3) :
         LET st1 == addDebug(Here, r.id, Trace)
             rec == Resolve(r, "otpInput", found)
         IN  IF st1.threw
             THEN otpTry(r, st1, rec)
             ELSE IF ~found
             THEN otpCatch(r, st1, rec, "Could not find OTP input field")
             ELSE \E out \in PageOutcomes(r.session) :
                    IF out = "ok"
                    THEN Set(st1, r, [rec EXCEPT !.pc = "verifyButton", !.fills = @ + 1])
                    ELSE otpCatch(r, st1, rec, "page error")

(* The verify/continue chain, and the click on what it found. *)
verifyButton(r) ==
    /\ At(r, "otp", "verifyButton")
    /\ \E found \in Found(3) :
         LET st1 == addDebug(Here, r.id, Trace)
             rec == Resolve(r, "verifyButton", found)
         IN  IF ~found \/ st1.threw
             THEN otpTry(r, st1, [rec EXCEPT !.pc = "eval"])
             ELSE \E out \in PageOutcomes(r.session) :
                    IF out = "ok"
                    THEN Set(st1, r, [rec EXCEPT !.pc = "eval", !.clicks = @ + 1])
                    ELSE otpCatch(r, st1, rec, "page error")

otpEval(r) ==
    /\ At(r, "otp", "eval")
    /\ \E out \in PageOutcomes(r.session) :
         IF out = "fail"
         THEN otpCatch(r, Here, r, "page error")
         ELSE \E textHasInvalidOtp \in BOOLEAN, textHasIncorrect \in BOOLEAN :
                LET rec == [r EXCEPT !.evaluated = TRUE,
                                     !.sawInvalidOtp = textHasInvalidOtp,
                                     !.sawIncorrect = textHasIncorrect]
                IN  IF loginSuccess(textHasInvalidOtp, textHasIncorrect)
                    THEN LET st1 == addDebug(Here, r.id, Trace)
                         IN  IF st1.threw
                             THEN otpTry(r, st1, rec)
                             ELSE Set(Verified(st1, r.session), r,
                                      Finish(rec, Json(TRUE, "Login successful",
                                                       getDebugLog(st1, r.id))))
                    ELSE Set(Here, r, [rec EXCEPT !.pc = "preview"])

otpPreview(r) ==
    /\ At(r, "otp", "preview")
    /\ \E out \in PageOutcomes(r.session) :
         IF out = "fail"
         THEN otpCatch(r, Here, r, "page error")
         ELSE LET st1 == addDebug(Here, r.id, Trace)
                  st2 == addDebug(st1, r.id, Trace)
              IN  IF st2.threw
                  THEN otpTry(r, st2, r)
                  ELSE Set(st2, r, Finish(r,
                                          Json(FALSE, "Invalid OTP. Please try again.",
                                               getDebugLog(st2, r.id))))

--------------------------------------------------------------------------
(* The process after start-up: no session, no browser, no request. *)
Init ==
    /\ sessions = << >>
    /\ objs = << >>
    /\ calls = EmptyBag
    /\ last = IdleCall
    /\ page = NoPage
    /\ hits = NoHits
    /\ report = NoReport
    /\ ui = NoUi

(* A launch can get a browser: the host sustains at most n of them. *)
CanLaunch(n) == Cardinality(DOMAIN objs) + Launching < n

(* No login, OTP or extraction call for id is in flight. *)
NoPhaseCall(id) == \A x \in InFlight : x.kind = "cancel" \/ x.id # id

(* The ids the login route may generate: session_<time>_<random> names no *)
(* session of the Store.                                                   *)
FreshIds == SessionIds \ DOMAIN sessions

(* The requests a caller may send: a phase call for an id only when no    *)
(* other phase call for that id is in flight, a cancel at any time.  The  *)
(* host sustains at most n browsers; a login is called with an id of ids. *)
loginRequest(n, ids) ==
    \E m \in MobileNumbers \cup {""}, id \in ids :
       /\ m # "" => CanLaunch(n) /\ NoPhaseCall(id)
       /\ loginStart(m, id)
       /\ UNCHANGED hits

otpRequest ==
    \E id \in SessionIds \cup {NoId}, otp \in {"", "000000"} :
       NoPhaseCall(id) /\ otpStart(id, otp) /\ UNCHANGED hits

scrapeRequest ==
    \E id \in SessionIds \cup {NoId} : NoPhaseCall(id) /\ scrapeStart(id) /\ UNCHANGED hits

cancelRequest == \E id \in SessionIds \cup {NoId} : cancelStart(id) /\ UNCHANGED hits

(* A segment of an invocation in flight. *)
Steps ==
    \/ \E r \in InFlight : loginLaunched(r) /\ UNCHANGED hits
    \/ \E r \in InFlight : loginContext(r) /\ UNCHANGED hits
    \/ \E r \in InFlight : loginGoto(r) /\ UNCHANGED hits
    \/ \E r \in InFlight : loginEval(r) /\ UNCHANGED hits
    \/ \E r \in InFlight : loginButton(r) /\ UNCHANGED hits
    \/ \E r \in InFlight : mobileInput(r) /\ UNCHANGED hits
    \/ \E r \in InFlight : continueButton(r) /\ UNCHANGED hits
    \/ \E r \in InFlight : loginCatchClosed(r) /\ UNCHANGED hits
    \/ \E r \in InFlight : otpInput(r) /\ UNCHANGED hits
    \/ \E r \in InFlight : verifyButton(r) /\ UNCHANGED hits
    \/ \E r \in InFlight : otpEval(r) /\ UNCHANGED hits
    \/ \E r \in InFlight : otpPreview(r) /\ UNCHANGED hits
    \/ \E r \in InFlight : scrapeGoto(r) /\ UNCHANGED hits
    \/ \E r \in InFlight : scrapeScroll(r) /\ UNCHANGED hits
    \/ \E r \in InFlight : scrapeExtract(r) /\ UNCHANGED hits
    \/ \E r \in InFlight : scrapeClosed(r) /\ UNCHANGED hits
    \/ \E r \in InFlight : scrapeCatchClosed(r) /\ UNCHANGED hits
    \/ \E r \in InFlight : cancelClosed(r) /\ UNCHANGED hits

(* Requests arrive at any time, up to MaxCalls in flight. *)
Next ==
    \/ Free /\ loginRequest(MaxBrowsers, FreshIds)
    \/ Free /\ otpRequest
    \/ Free /\ scrapeRequest
    \/ Free /\ cancelRequest
    \/ Steps

Spec == Init /\ [][Next]_vars

(* A segment of the scrapeOrders call in flight for id. *)
scrapeStep(id) ==
    \E r \in InFlight :
       /\ r.id = id
       /\ \/ scrapeGoto(r)
          \/ scrapeScroll(r)
          \/ scrapeExtract(r)
          \/ scrapeClosed(r)
          \/ scrapeCatchClosed(r)
       /\ UNCHANGED hits

(* Every browser operation a scrapeOrders call awaits returns or fails,   *)
(* and the event loop then runs the continuation.                         *)
FairSpec == Spec /\ \A id \in SessionIds : WF_vars(scrapeStep(id))

(* express-rate-limit in front of a handler: the request is counted, and  *)
(* answered 429 without reaching the handler once the client has made max *)
(* requests in the window.  rec is the request, handler what the route    *)
(* does with a request that passes.                                       *)
rateLimit(route, max, rec, handler) ==
    IF hits[route] >= max
    THEN /\ Set(Here, IdleCall, Finish(rec, TooManyRequests))
         /\ hits' = [hits EXCEPT ![route] = max + 1]
    ELSE /\ handler
         /\ hits' = [hits EXCEPT ![route] = @ + 1]

(* The window of the limiters ends: the counts start again. *)
windowReset ==
    /\ hits # NoHits
    /\ hits' = NoHits
    /\ UNCHANGED <<sessions, objs, calls, last, page, report, ui>>

(* POST /api/swiggy/login of one client. *)
loginRoute ==
    \E m \in MobileNumbers \cup {""}, id \in {"s1"} \ DOMAIN sessions :
       /\ m # "" => CanLaunch(MaxBrowsers)
       /\ rateLimit("login", LoginMax, [NewCall("login", NoId) EXCEPT !.mobile = m],
                    loginStart(m, id))

(* POST /api/swiggy/submit-otp of one client. *)
otpRoute ==
    \E id \in {"s1", NoId}, otp \in {"", "000000"} :
       rateLimit("otp", OtpMax, [NewCall("otp", id) EXCEPT !.otp = otp], otpStart(id, otp))

(* The four routes as one client calls them, a request at a time, with    *)
(* the limiters of the login and submit-otp routes in front.              *)
RouteNext ==
    \/ calls = EmptyBag /\ loginRoute
    \/ calls = EmptyBag /\ otpRoute
    \/ calls = EmptyBag /\ \E id \in {"s1", NoId} : scrapeStart(id) /\ UNCHANGED hits
    \/ calls = EmptyBag /\ \E id \in {"s1", NoId} : cancelStart(id) /\ UNCHANGED hits
    \/ windowReset
    \/ Steps

RouteSpec == Init /\ [][RouteNext]_vars

(* The scraper's functions called one at a time, initSwiggyLogin with any *)
(* id: a request arrives only when no other is in flight.                 *)
SerialNext ==
    \/ calls = EmptyBag /\ loginRequest(MaxSerialBrowsers, SessionIds)
    \/ calls = EmptyBag /\ otpRequest
    \/ calls = EmptyBag /\ scrapeRequest
    \/ calls = EmptyBag /\ cancelRequest
    \/ Steps

SerialSpec == Init /\ [][SerialNext]_vars

(* Two sessions at once: both ids have completed a login, each with its   *)
(* own browser, and OTP, extraction and cancel calls for the two ids      *)
(* interleave in every order the contract allows.                         *)
PairInit ==
    /\ sessions = [id \in SessionIds |-> IF id = "s1" THEN 1 ELSE 2]
    /\ objs = [b \in 1..2 |->
                 [NewBrowser EXCEPT !.hasSession = TRUE, !.mobile = "9876543210",
                                    !.debugLog = [k \in 1..4 |-> Entry(Trace)],
                                    !.appended = [k \in 1..4 |-> Trace]]]
    /\ calls = EmptyBag
    /\ last = IdleCall
    /\ page = NoPage
    /\ hits = NoHits
    /\ report = NoReport
    /\ ui = NoUi

PairNext ==
    \/ Free /\ otpRequest
    \/ Free /\ scrapeRequest
    \/ Free /\ cancelRequest
    \/ \E r \in InFlight : otpInput(r) /\ UNCHANGED hits
    \/ \E r \in InFlight : verifyButton(r) /\ UNCHANGED hits
    \/ \E r \in InFlight : otpEval(r) /\ UNCHANGED hits
    \/ \E r \in InFlight : otpPreview(r) /\ UNCHANGED hits
    \/ \E r \in InFlight : scrapeGoto(r) /\ UNCHANGED hits
    \/ \E r \in InFlight : scrapeScroll(r) /\ UNCHANGED hits
    \/ \E r \in InFlight : scrapeExtract(r) /\ UNCHANGED hits
    \/ \E r \in InFlight : scrapeClosed(r) /\ UNCHANGED hits
    \/ \E r \in InFlight : scrapeCatchClosed(r) /\ UNCHANGED hits
    \/ \E r \in InFlight : cancelClosed(r) /\ UNCHANGED hits

PairSpec == PairInit /\ [][PairNext]_vars

--------------------------------------------------------------------------
(* The diagnostic log on its own: addDebug and getDebugLog called by any  *)
(* caller, any number of times, on a session that logged in, which a      *)
(* cancel may destroy.                                                     *)

LogMessages == <<"a", "b", "c", "d", "e", "f", "g">>

(* The session's log now, as the caller of getDebugLog would see it. *)
LogNow(id) == IF id \in DOMAIN sessions THEN objs[sessions[id]].debugLog ELSE << >>

(* Session s1 after a login that found the caller already logged in. *)
LogInit ==
    /\ sessions = [id \in {"s1"} |-> 1]
    /\ objs = [b \in {1} |->
                 [NewBrowser EXCEPT !.hasSession = TRUE, !.mobile = "9876543210",
                                    !.debugLog = [k \in 1..4 |-> Entry(Trace)],
                                    !.appended = [k \in 1..4 |-> Trace]]]
    /\ calls = EmptyBag
    /\ last = IdleCall
    /\ page = NoPage
    /\ hits = NoHits
    /\ report = NoReport
    /\ ui = NoUi

(* addDebug(id, message), the k-th message being LogMessages[k mod 7]. *)
logAppend(id) ==
    /\ \A b \in DOMAIN objs : Len(objs[b].appended) < MaxAppends
    /\ LET k == IF id \in DOMAIN sessions THEN Len(objs[sessions[id]].appended) ELSE 0
           st == addDebug(Here, id, LogMessages[(k % Len(LogMessages)) + 1])
       IN  /\ sessions' = st.sessions
           /\ objs' = st.objs
           /\ UNCHANGED <<calls, last, page, hits, report, ui>>

(* getDebugLog(id): the caller keeps what it returned. *)
logRead(id) ==
    /\ \A x \in InFlight : x.kind # "read"
    /\ calls' = calls (+) SetToBag({[NewCall("read", id) EXCEPT
                                        !.pc = "hold",
                                        !.logAtCall = LogNow(id),
                                        !.res = Json(TRUE, "", getDebugLog(Here, id))]})
    /\ UNCHANGED <<sessions, objs, last, page, hits, report, ui>>

(* The caller drops what it kept. *)
logDrop(r) ==
    /\ At(r, "read", "hold")
    /\ calls' = calls (-) SetToBag({r})
    /\ UNCHANGED <<sessions, objs, last, page, hits, report, ui>>

LogNext ==
    \/ \E id \in SessionIds : logAppend(id)
    \/ \E id \in SessionIds : logRead(id)
    \/ \E r \in InFlight : logDrop(r)
    \/ \E id \in SessionIds : Free /\ cancelStart(id) /\ UNCHANGED hits
    \/ \E r \in InFlight : cancelClosed(r) /\ UNCHANGED hits

LogSpec == LogInit /\ [][LogNext]_vars

(* The page functions on their own: the document holds one or two order   *)
(* elements, each a heading followed by two pieces of text, or the page   *)
(* answers the lookups of one chain of three or four selectors.  Every    *)
(* piece carries what it spells: its kind, the number of an amount, the   *)
(* day of a date and whether that day exists in the calendar.             *)
Piece(chars, kind, int, frac, y, m, d, real) ==
    [chars |-> chars, kind |-> kind, int |-> int, frac |-> frac,
     y |-> y, m |-> m, d |-> d, real |-> real]

AmountPieces ==
    { Piece(<<Rupee, "1", ",", "2", "3", "4", ".", "5", "0">>, "amount", 1234, <<5>>, 0, 0, 0, FALSE),
      Piece(<<Rupee, " ", "2", "5", "0">>, "amount", 250, << >>, 0, 0, 0, FALSE),
      Piece(<<Rupee, "9", "9", ".", "0", "5">>, "amount", 99, <<0, 5>>, 0, 0, 0, FALSE),
      Piece(<<Rupee, "0">>, "amount", 0, << >>, 0, 0, 0, FALSE),
      Piece(<<Rupee, "0", ".", "0", "0">>, "amount", 0, << >>, 0, 0, 0, FALSE) }

DatePieces ==
    { Piece(<<"1", "5", " ", "M", "a", "r", " ", "2", "0", "2", "4">>, "date", 0, << >>, 2024, 3, 15, TRUE),
      Piece(<<"1", " ", "m", "a", "r", " ", "2", "0", "2", "4">>, "date", 0, << >>, 2024, 3, 1, TRUE),
      Piece(<<"0", "1", " ", "J", "A", "N", " ", " ", "2", "0", "2", "4">>, "date", 0, << >>, 2024, 1, 1, TRUE),
      Piece(<<"3", "0", " ", "N", "o", "v", " ", "2", "0", "2", "3">>, "date", 0, << >>, 2023, 11, 30, TRUE),
      Piece(<<"3", "1", " ", "F", "e", "b", " ", "2", "0", "2", "4">>, "date", 0, << >>, 2024, 2, 31, FALSE),
      Piece(<<"3", "2", " ", "M", "a", "r", " ", "2", "0", "2", "4">>, "date", 0, << >>, 2024, 3, 32, FALSE) }

OtherPieces ==
    { Piece(<<"D", "e", "l", "i", "v", "e", "r", "e", "d">>, "other", 0, << >>, 0, 0, 0, FALSE),
      Piece(<<"2", "5", "0">>, "other", 0, << >>, 0, 0, 0, FALSE),
      Piece(<<"M", "a", "r", "c", "h">>, "other", 0, << >>, 0, 0, 0, FALSE) }

Pieces == AmountPieces \cup DatePieces \cup OtherPieces

(* A heading: its characters and the name it spells (none: no heading). *)
Headings ==
    { [chars |-> <<" ", " ", "C", "a", "f", "e", " ", "A", " ", "\n">>,
       name |-> <<"C", "a", "f", "e", " ", "A">>],
      [chars |-> <<"\n", " ", "\t", "\n", "D", "o", "s", "a", "\n">>,
       name |-> <<"D", "o", "s", "a">>],
      [chars |-> <<"U", "n", "k", "n", "o", "w", "n", "\n">>,
       name |-> <<"U", "n", "k", "n", "o", "w", "n">>],
      [chars |-> << >>, name |-> << >>] }

Separators == {" ", "\n"}

Elements == [heading : Headings, first : Pieces, sep : Separators, second : Pieces]

(* el.innerText of an element. *)
innerText(e) == e.heading.chars \o e.first.chars \o <<e.sep>> \o e.second.chars

(* Minutes the zone of the host is ahead of UTC. *)
Offsets == {0 - 300, 0, 330}

PairedElements ==
    { e \in Elements : /\ e.heading.name = <<"D", "o", "s", "a">>
                       /\ e.sep = " "
                       /\ e.first \in AmountPieces
                       /\ e.second \in DatePieces }

Documents == {<<e>> : e \in Elements} \cup {<<e, f>> : e \in PairedElements, f \in PairedElements}

PageInit ==
    /\ sessions = << >>
    /\ objs = << >>
    /\ calls = EmptyBag
    /\ last = IdleCall
    /\ hits = NoHits
    /\ report = NoReport
    /\ ui = NoUi
    /\ \/ \E doc \in Documents, offset \in Offsets :
              page = [NoPage EXCEPT !.elements = doc, !.offset = offset]
       \/ \E outs \in Chains(3) \cup Chains(4) :
              page = [NoPage EXCEPT !.outs = outs]

(* The function scrapeOrders evaluates in the page, on this document. *)
extractPage ==
    /\ ~page.done
    /\ page.elements # << >>
    /\ page' = [page EXCEPT
                   !.done = TRUE,
                   !.extracted = [k \in 1..Len(page.elements) |->
                                     extractElement(innerText(page.elements[k]), page.offset)],
                   !.orders = extractOrders([k \in 1..Len(page.elements) |->
                                                innerText(page.elements[k])], page.offset)]
    /\ UNCHANGED <<sessions, objs, calls, last, hits, report, ui>>

(* One selector chain of a phase, on these answers of the page. *)
resolveChain ==
    /\ ~page.done
    /\ page.outs # << >>
    /\ page' = [page EXCEPT !.done = TRUE, !.chain = evalChain(page.outs, 1, {})]
    /\ UNCHANGED <<sessions, objs, calls, last, hits, report, ui>>

PageNext == extractPage \/ resolveChain

PageSpec == PageInit /\ [][PageNext]_vars

--------------------------------------------------------------------------
(* Properties *)

(* C1: at the moment scrapeOrders(id) returns, by its success return, its *)
(* "no orders" return or its catch block, the Store has no entry for id.  *)
C1_NoEntryAfterScrape ==
    (last.kind = "scrape" /\ last.id # NoId) => last.id \notin DOMAIN sessions

C1_Witness ==
    /\ last.kind = "scrape" /\ last.wasLive
    /\ last.res.success /\ Len(last.res.orders) > 0

(* C2: when scrapeOrders returns from a call that found a live session,   *)
(* by its success return, its "no orders" return or its catch block,      *)
(* browser.close() has been called exactly once on that session's browser *)
(* and its Store entry has been removed exactly once.                      *)
C2_ReleasedExactlyOnce ==
    (last.kind = "scrape" /\ last.wasLive) =>
        /\ objs[last.session].closeCalls = 1
        /\ objs[last.session].removed = 1

(* C3: browser.close() is never called twice on the browser of a session  *)
(* that a scrapeOrders call runs on, whatever cleanupSession calls         *)
(* interleave with it.                                                     *)
C3_ClosedAtMostOnce ==
    \A r \in InFlight \cup {last} :
        (r.kind = "scrape" /\ r.wasLive) => objs[r.session].closeCalls <= 1

(* One addDebug on a log: the entry at the tail, the head evicted when the *)
(* cap is exceeded.                                                        *)
Pushed(old, new) ==
    /\ Len(new) >= 1
    /\ LET all == Append(old, new[Len(new)])
       IN  new = IF Len(all) > DEBUG_LOG_LIMIT THEN Tail(all) ELSE all

(* C4: the log of every session has at most 50 entries in every state,    *)
(* and a step changes the log of a session that stays in the Store only   *)
(* by one addDebug: one entry appended at the tail, the head evicted when *)
(* the cap is exceeded.                                                    *)
C4_LogBoundedAppendOnly ==
    /\ [](\A b \in DOMAIN objs : Len(objs[b].debugLog) <= DEBUG_LOG_LIMIT)
    /\ [][\A id \in DOMAIN sessions \cap DOMAIN sessions' :
            sessions'[id] = sessions[id] =>
                \/ objs'[sessions[id]].debugLog = objs[sessions[id]].debugLog
                \/ Pushed(objs[sessions[id]].debugLog, objs'[sessions[id]].debugLog)]_vars

C4_Witness ==
    \E id \in DOMAIN sessions :
        /\ Len(objs[sessions[id]].debugLog) = DEBUG_LOG_LIMIT
        /\ Len(objs[sessions[id]].appended) = DEBUG_LOG_LIMIT + 1

(* C5: after n > 50 addDebug calls on a session its log has exactly 50    *)
(* entries, the messages of the calls n-49..n in the order of the calls.  *)
C5_LastFiftyInOrder ==
    \A id \in DOMAIN sessions :
        LET o == objs[sessions[id]]
            n == Len(o.appended)
        IN  n > DEBUG_LOG_LIMIT =>
                /\ Len(o.debugLog) = DEBUG_LOG_LIMIT
                /\ Messages(o.debugLog) = SubSeq(o.appended, n - DEBUG_LOG_LIMIT + 1, n)

C5_Witness ==
    \E id \in DOMAIN sessions : Len(objs[sessions[id]].appended) > DEBUG_LOG_LIMIT + 1

(* C6: addDebug(id, message) for an id with no Store entry throws         *)
(* nothing, adds no entry and changes no session and no log: so it is for *)
(* every absent id in every state, and so it is in the run of the catch   *)
(* block of a login whose launch failed before any entry was stored,      *)
(* which answers with its failure result and leaves the Store and every   *)
(* session as they were.                                                   *)
C6_AbsentIdNoOp ==
    /\ [](\A id \in SessionIds \ DOMAIN sessions :
            LET st == addDebug(Here, id, Trace)
            IN  ~st.threw /\ st.sessions = sessions /\ st.objs = objs)
    /\ [][(/\ last' # last /\ last'.kind = "login"
           /\ last'.browser = NoSession /\ last'.closing = NoSession
           /\ last'.id \in SessionIds \ DOMAIN sessions) =>
              /\ last'.res.status = 200
              /\ last'.res.debugLog = EmptyLog
              /\ sessions' = sessions /\ objs' = objs]_vars

(* A login whose launch failed: its catch block called addDebug for an id *)
(* that had no entry, while another session was in the Store.              *)
C6_Witness ==
    /\ last.kind = "login" /\ last.res.status = 200 /\ ~last.res.success
    /\ last.browser = NoSession /\ last.closing = NoSession
    /\ last.id \notin DOMAIN sessions
    /\ DOMAIN sessions # {}

(* C7: the value getDebugLog(id) returned stays the log the session had   *)
(* at the moment of the call (the empty sequence when id had no entry),   *)
(* whatever addDebug appends and whatever destroys the session later.      *)
C7_SnapshotCopy ==
    \A r \in InFlight : r.kind = "read" => LogValue(r.res.debugLog) = r.logAtCall

C7_Witness ==
    \E r \in InFlight :
        /\ r.kind = "read" /\ r.id \in DOMAIN sessions
        /\ Len(r.logAtCall) > 0
        /\ r.logAtCall # LogNow(r.id)

(* C8: every cancel request that names a session id is answered           *)
(* success:true, whether the id is live, was never created, or was        *)
(* already cancelled or extracted.                                         *)
C8_CancelAlwaysSucceeds ==
    (last.kind = "cancel" /\ last.id # NoId) =>
        (last.res.status = 200 /\ last.res.success)

(* The second of two cancels of one id returns. *)
C8_Witness ==
    /\ last.kind = "cancel" /\ last.wasLive
    /\ objs[last.session].closeCalls = 2
    /\ last.id \notin DOMAIN sessions

(* C9: when cleanupSession(id) returns for an id that was live, close()   *)
(* has been called on the session's browser and has settled (resolved, or *)
(* rejected with the rejection dropped), the Store has no entry for id,   *)
(* and the call did not throw.                                             *)
C9_CancelReleasesAndRemoves ==
    (last.kind = "cancel" /\ last.wasLive) =>
        /\ objs[last.session].closeCalls >= 1
        /\ objs[last.session].state \in {"closed", "closeFailed"}
        /\ last.id \notin DOMAIN sessions
        /\ last.res.status = 200

C9_Witness ==
    /\ last.kind = "cancel" /\ last.wasLive
    /\ objs[last.session].state = "closeFailed"
    /\ objs[last.session].closeCalls = 1

(* C10: a login that evaluated a page with no login-entry-point element   *)
(* and no "Login" in its text returns success:true, needsOtp:false, has   *)
(* clicked and filled nothing, and leaves its session in the Store with   *)
(* the browser open; every other successful login returns needsOtp:true.  *)
C10_AlreadyLoggedIn ==
    last.kind = "login" =>
        /\ (last.evaluated /\ ~last.sawButton /\ ~last.sawText) =>
              /\ last.res.status = 200 /\ last.res.success /\ ~last.res.needsOtp
              /\ last.clicks = 0 /\ last.fills = 0
              /\ last.id \in DOMAIN sessions
              /\ sessions[last.id] = last.browser
              /\ objs[last.browser].state = "open"
        /\ (last.res.success /\ ~(last.evaluated /\ ~last.sawButton /\ ~last.sawText)) =>
              last.res.needsOtp

C10_Witness ==
    /\ last.kind = "login" /\ last.evaluated
    /\ ~last.sawButton /\ ~last.sawText
    /\ last.res.success /\ ~last.res.needsOtp

(* C11: when the page shows "Invalid OTP" or "incorrect" after the code   *)
(* was submitted, submitOTP returns success:false with the "Invalid OTP"  *)
(* message, and the session is still in the Store with its browser open.  *)
C11_RejectedOtpKeepsSession ==
    (last.kind = "otp" /\ last.evaluated /\ (last.sawInvalidOtp \/ last.sawIncorrect)) =>
        /\ last.res.status = 200 /\ ~last.res.success
        /\ last.res.message = "Invalid OTP. Please try again."
        /\ last.id \in DOMAIN sessions
        /\ sessions[last.id] = last.session
        /\ objs[last.session].state = "open"

(* C12: a scrapeOrders call on a live session whose try block threw       *)
(* nothing returns success:true exactly when it extracted at least one    *)
(* record; with none it returns success:false and orders = []; otherwise  *)
(* orders is the extracted sequence and the count of the message is its   *)
(* length.                                                                 *)
C12_SuccessIffRecords ==
    (last.kind = "scrape" /\ last.wasLive /\ last.res.status = 200 /\ last.res.error = "") =>
        /\ last.res.success <=> Len(last.extracted) > 0
        /\ last.res.orders = last.extracted
        /\ last.res.success => last.res.count = Len(last.res.orders)

C12_Witness ==
    /\ last.kind = "scrape" /\ last.wasLive /\ last.res.error = ""
    /\ last.res.status = 200 /\ ~last.res.success
    /\ last.extracted = << >> /\ last.res.orders = << >>
    /\ last.id \notin DOMAIN sessions

(* C13: submitOTP(id, otp) for an id with no Store entry returns the      *)
(* "session not found or expired" failure with an empty debugLog in the   *)
(* step that called it, and that step changes no Store entry, no session  *)
(* object, no browser's state, issues no page operation and launches      *)
(* nothing.                                                                *)
C13_OtpAbsentNoEffect ==
    [][(/\ last'.kind = "otp" /\ last'.id \in SessionIds /\ ~last'.wasLive
         /\ last'.res.status # 400) =>
          /\ last'.res.status = 200 /\ ~last'.res.success
          /\ last'.res.message = "Session not found or expired"
          /\ last'.res.debugLog = EmptyLog
          /\ last'.fills = 0 /\ last'.clicks = 0
          /\ sessions' = sessions
          /\ calls' = calls
          /\ DOMAIN objs' \subseteq DOMAIN objs
          /\ \A b \in DOMAIN objs' : objs'[b].state = objs[b].state
          /\ \A k \in DOMAIN sessions : objs'[sessions[k]] = objs[sessions[k]]]_vars

C13_Witness ==
    /\ last.kind = "otp" /\ last.id \in SessionIds /\ ~last.wasLive
    /\ last.res.status = 200 /\ last.id \notin DOMAIN sessions
    /\ \E k \in DOMAIN sessions : Len(objs[sessions[k]].debugLog) > 0

(* C14: whenever initSwiggyLogin returns success:false, the Store has no  *)
(* entry for its sessionId and the browser the call launched, if it       *)
(* launched one, has had close() called on it and settled.                *)
C14_FailedLoginNotHalfOpen ==
    (last.kind = "login" /\ last.res.status = 200 /\ ~last.res.success) =>
        /\ last.id \notin DOMAIN sessions
        /\ last.browser # NoSession =>
              /\ objs[last.browser].closeCalls >= 1
              /\ objs[last.browser].state \in {"closed", "closeFailed"}

(* C15: every call of initSwiggyLogin, submitOTP and scrapeOrders that    *)
(* the route made is answered with the value the function returned, never *)
(* with the 500 of an exception that escaped it, and a call whose catch    *)
(* block ran returns success:false with a message.                        *)
C15_FailureBoundary ==
    (last.kind \in {"login", "otp", "scrape"} /\ last.res.status # 400) =>
        /\ last.res.status = 200
        /\ last.res.message # ""
        /\ last.res.error # "" => ~last.res.success

C15_Witness ==
    /\ last.kind = "otp" /\ last.wasLive /\ last.fills = 1
    /\ last.res.error = "page error"
    /\ last.res.status = 200 /\ ~last.res.success

(* C16: whenever initSwiggyLogin returns success:false, the debugLog of   *)
(* the response holds the "Login error" entry of the catch block.         *)
C16_LoginFailureLogged ==
    (last.kind = "login" /\ last.res.status = 200 /\ ~last.res.success) =>
        \E k \in 1..Len(LogValue(last.res.debugLog)) :
            LogValue(last.res.debugLog)[k].message = "Login error"

(* C17: a session of the Store whose login has returned, with its browser *)
(* open and no release begun, and with no extraction and no cancel for    *)
(* its id in flight, is still the session of that id, its browser open    *)
(* and unreleased, after every step that starts no extraction and no      *)
(* cancel for that id: no segment and no outcome of submitOTP removes or  *)
(* releases it, and no step removes it on its own.                        *)
C17_LiveUntilScrapeOrCancel ==
    [][\A id \in DOMAIN sessions :
          (/\ objs[sessions[id]].state = "open"
           /\ objs[sessions[id]].closeCalls = 0
           /\ \A x \in InFlight : x.id = id => x.kind = "otp"
           /\ \A x \in BagToSet(calls') : x.id = id => x.kind \notin {"scrape", "cancel"}) =>
              /\ id \in DOMAIN sessions'
              /\ sessions'[id] = sessions[id]
              /\ objs'[sessions[id]].state = "open"
              /\ objs'[sessions[id]].closeCalls = 0]_vars

C17_Witness ==
    /\ last.kind = "otp" /\ last.wasLive
    /\ last.res.message = "OTP verification failed"
    /\ last.id \in DOMAIN sessions
    /\ sessions[last.id] = last.session
    /\ objs[last.session].state = "open"

(* C18: no step replaces the session registered under an id of the Store *)
(* by another one: an initSwiggyLogin call for an id that maps to a live  *)
(* session leaves that session's entry as it was.                         *)
C18_NoReplacement ==
    [][\A id \in DOMAIN sessions \cap DOMAIN sessions' :
          sessions'[id] = sessions[id]]_vars

(* C19: a submitOTP or scrapeOrders call that finds a session in the      *)
(* Store never finds one on whose browser close() has already been        *)
(* called.                                                                 *)
C19_NoPhaseOnReleasing ==
    [][BagCardinality(calls') > BagCardinality(calls) =>
          \A x \in BagToSet(calls') :
              (x \notin InFlight /\ x.kind \in {"otp", "scrape"} /\ x.wasLive) =>
                  objs[x.session].closeCalls = 0]_vars

(* C20: a step gives an id a Store entry, or another session than it had, *)
(* only as the sessions.set of an initSwiggyLogin call for that id: no    *)
(* segment of submitOTP, scrapeOrders or cleanupSession, and no addDebug  *)
(* or getDebugLog they run, adds an entry or brings a removed one back.   *)
C20_OnlyLoginCreates ==
    [][\A id \in DOMAIN sessions' :
          (id \notin DOMAIN sessions \/ sessions'[id] # sessions[id]) =>
              \E r \in InFlight :
                  /\ At(r, "login", "context") /\ r.id = id
                  /\ sessions'[id] = r.browser]_vars

(* An extraction failed: its catch block ran addDebug and getDebugLog,    *)
(* the session was released and removed once, and the id stayed absent.   *)
C20_Witness ==
    /\ last.kind = "scrape" /\ last.wasLive
    /\ last.res.error # ""
    /\ objs[last.session].removed = 1 /\ objs[last.session].closeCalls = 1
    /\ last.id \notin DOMAIN sessions

(* What the pieces of an element spell. *)
HasKind(e, kind) == e.first.kind = kind \/ e.second.kind = kind

FirstOfKind(e, kind) == IF e.first.kind = kind THEN e.first ELSE e.second

AmountOf(p) == [isNull |-> FALSE, int |-> p.int, frac |-> p.frac]

IsoOf(p) == pad(p.y, 4) \o <<"-">> \o pad(p.m, 2) \o <<"-">> \o pad(p.d, 2)

NameOf(e) ==
    IF e.heading.name # << >> THEN e.heading.name
    ELSE IF e.sep = "\n" THEN e.first.chars
    ELSE e.first.chars \o <<e.sep>> \o e.second.chars

Extracted == page.done /\ page.elements # << >>

(* C22 as stated: every element whose text holds both a well-formed rupee *)
(* amount and a well-formed "day Mon year" date yields exactly one record *)
(* with that amount, amounts of 0 and every date of the pattern included, *)
(* and an element that lacks either yields none.                          *)
C22_OneRecordIffBoth ==
    Extracted =>
        \A k \in DOMAIN page.elements :
            LET e == page.elements[k]
                pushed == page.extracted[k].pushed
            IN  IF HasKind(e, "amount") /\ HasKind(e, "date")
                THEN /\ Len(pushed) = 1
                     /\ pushed[1].amount = AmountOf(FirstOfKind(e, "amount"))
                ELSE pushed = << >>

(* C23 as stated: the date of an element is the ISO calendar date of the  *)
(* day its first "D Mon YYYY" match spells, whatever the UTC offset of    *)
(* the host.                                                              *)
C23_SameCalendarDay ==
    Extracted =>
        \A k \in DOMAIN page.elements :
            LET e == page.elements[k]
            IN  HasKind(e, "date") /\ FirstOfKind(e, "date").real
                    => page.extracted[k].date = IsoOf(FirstOfKind(e, "date"))

(* C24: the amount of an element is the number its first rupee amount     *)
(* spells once the commas are removed, later amounts are ignored, and an  *)
(* element without a rupee amount has no amount.                          *)
C24_FirstAmountParsed ==
    Extracted =>
        \A k \in DOMAIN page.elements :
            LET e == page.elements[k]
            IN  page.extracted[k].amount =
                    IF HasKind(e, "amount") THEN AmountOf(FirstOfKind(e, "amount"))
                    ELSE NullNumber

(* C24 witness: an element whose text is two amounts, the first of them   *)
(* with a comma group and a decimal part, was extracted as 1234.5.        *)
C24_Witness ==
    /\ Extracted
    /\ page.elements[1].first.int = 1234
    /\ page.elements[1].second.kind = "amount"
    /\ page.extracted[1].amount = [isNull |-> FALSE, int |-> 1234, frac |-> <<5>>]

BlankTexts == {<< >>, <<" ">>, <<"\n", " ", "\t", "\n">>}

(* C25: the restaurant of an element is its first line that is not blank, *)
(* an emitted record carries it without surrounding white space, and a    *)
(* text with no such line gives "Unknown".                                *)
C25_FirstNonBlankLine ==
    /\ \A t \in BlankTexts : restaurant(t) = Unknown
    /\ Extracted =>
          \A k \in DOMAIN page.elements :
              LET x == page.extracted[k]
              IN  /\ ~x.threw => trim(x.restaurant) = NameOf(page.elements[k])
                  /\ x.pushed # << >> => x.pushed[1].restaurant = NameOf(page.elements[k])

(* C25 witness: an element whose text starts with blank lines and holds   *)
(* its name on a later line was emitted under that name.                  *)
C25_Witness ==
    /\ Extracted
    /\ page.elements[1].heading.name = <<"D", "o", "s", "a">>
    /\ page.extracted[1].pushed # << >>
    /\ page.extracted[1].pushed[1].restaurant = <<"D", "o", "s", "a">>

Resolved == page.done /\ page.outs # << >>

FirstElem(outs) ==
    IF \E k \in DOMAIN outs : outs[k] = "elem"
    THEN CHOOSE k \in DOMAIN outs : outs[k] = "elem" /\ \A j \in 1..(k - 1) : outs[j] # "elem"
    ELSE 0

(* C27: a selector chain asks its selectors in the listed order, yields   *)
(* the first one that gives an element, asks none after it, and takes a   *)
(* lookup that throws as no match: the chain itself never throws.         *)
C27_ChainOrder ==
    Resolved =>
        /\ ~page.chain.threw
        /\ page.chain.match = FirstElem(page.outs)
        /\ page.chain.match = firstMatch(page.outs)
        /\ page.chain.asked = IF FirstElem(page.outs) = 0 THEN DOMAIN page.outs
                              ELSE 1..FirstElem(page.outs)

(* C27 witness: the first lookup of a chain threw, the second gave an     *)
(* element, and the chain yielded the second without asking the third.    *)
C27_Witness ==
    /\ Resolved
    /\ page.outs[1] = "throw"
    /\ page.outs[2] = "elem"
    /\ page.chain.match = 2
    /\ page.chain.asked = {1, 2}

(* No call for id B took this step: the calls in flight for B are the     *)
(* same before and after it, and no call for B returned in it.            *)
NoStepFor(B) ==
    /\ \A x \in BagToSet(calls) \cup BagToSet(calls') :
          x.id = B => CopiesIn(x, calls) = CopiesIn(x, calls')
    /\ last' = last \/ last'.id # B

(* The browsers of id B: the one of its Store entry and those held by the *)
(* calls in flight for B.                                                 *)
BrowsersOf(B) ==
    {sessions[id] : id \in DOMAIN sessions \cap {B}}
        \cup {x.browser : x \in {y \in BagToSet(calls) : y.id = B /\ y.browser # NoSession}}
        \cup {x.closing : x \in {y \in BagToSet(calls) : y.id = B /\ y.closing # NoSession}}

OperationFailed(rec) == rec.res.error \in {"launch failed", "page error", "TypeError"}

(* C26: a login whose mobile input was found and filled, and none of      *)
(* whose browser operations failed, returns success with needsOtp and the *)
(* session stays in the Store with its browser open, whether or not the   *)
(* login-entry-point and the continue control were found; each is clicked *)
(* only when found; the only chain whose miss fails the phase is the      *)
(* mobile input's.                                                        *)
C26_OnlyMobileInputFatal ==
    last.kind = "login" /\ last.res.status = 200 =>
        /\ last.fills = 1 /\ ~OperationFailed(last) =>
              /\ last.res.success /\ last.res.needsOtp
              /\ last.id \in DOMAIN sessions
              /\ objs[sessions[last.id]].state = "open"
              /\ last.clicks = Cardinality(last.found \cap {"loginButton", "continueButton"})
        /\ last.res.error = "Could not find mobile number input field"
              => "mobileInput" \notin last.found /\ last.fills = 0
        /\ ~last.res.success /\ ~OperationFailed(last)
              => last.res.error = "Could not find mobile number input field"

(* C26 witness: neither the login-entry-point nor the continue control    *)
(* was found, nothing was clicked, the mobile input was filled, and the   *)
(* login returned success with needsOtp.                                  *)
C26_Witness ==
    /\ last.kind = "login"
    /\ last.found = {"mobileInput"}
    /\ last.clicks = 0 /\ last.fills = 1
    /\ last.res.success /\ last.res.needsOtp
    /\ last.id \in DOMAIN sessions

(* C28: when the OTP input was found and no browser operation failed,     *)
(* submitOTP returns success exactly when the page text holds neither     *)
(* "Invalid OTP" nor "incorrect", also when no verify control was found   *)
(* and nothing was clicked.                                               *)
C28_VerdictFromMarkers ==
    /\ last.kind = "otp" /\ last.res.status = 200
    /\ "otpInput" \in last.found /\ ~OperationFailed(last)
    => /\ last.evaluated
       /\ last.res.success <=> ~last.sawInvalidOtp /\ ~last.sawIncorrect
       /\ last.clicks = Cardinality(last.found \cap {"verifyButton"})

(* C28 witness: no verify control was found, nothing was clicked, the     *)
(* page text held "incorrect" only, and submitOTP returned success:false. *)
C28_Witness ==
    /\ last.kind = "otp"
    /\ last.found = {"otpInput"} /\ last.clicks = 0
    /\ last.evaluated /\ ~last.sawInvalidOtp /\ last.sawIncorrect
    /\ ~OperationFailed(last)
    /\ ~last.res.success

(* The scrapeOrders calls that obtained a session, in flight or returned. *)
LiveScrapes == {x \in BagToSet(calls) \cup {last} : x.kind = "scrape" /\ x.wasLive}

ScrapeInFlight(id) == \E x \in InFlight : x.kind = "scrape" /\ x.id = id

(* The order of the steps of one scrapeOrders call. *)
ScrapeInOrder(x) ==
    /\ x.navigated <=> ~x.onOrdersPage
    /\ x.rounds <= ScrollRounds
    /\ x.pc \in {"extract", "close"} => x.rounds = ScrollRounds
    /\ x.extractions <= 1
    /\ x.extractions = 1 => x.rounds = ScrollRounds
    /\ x.pc = "close" => x.extractions = 1 /\ objs[x.session].closeCalls >= 1
    /\ x.pc = "done" /\ x.res.status = 200 /\ x.res.error = ""
          => x.extractions = 1 /\ x.id \notin DOMAIN sessions

(* C29: scrapeOrders on a live session navigates only when the page is    *)
(* not on the order history, then makes exactly 5 scroll rounds, then     *)
(* extracts once, then releases the session and returns; and as every     *)
(* browser operation returns or fails, a call in flight eventually        *)
(* returns.                                                               *)
C29_ScrapeTerminates ==
    /\ [](\A x \in LiveScrapes : ScrapeInOrder(x))
    /\ \A id \in SessionIds : ScrapeInFlight(id) ~> ~ScrapeInFlight(id)

(* C29 witness: a scrapeOrders call that found the page on the order      *)
(* history returned its orders after 5 rounds and one extraction, without *)
(* navigating, its session removed.                                      *)
C29_Witness ==
    /\ last.kind = "scrape" /\ last.wasLive /\ last.res.success
    /\ last.onOrdersPage /\ ~last.navigated
    /\ last.rounds = ScrollRounds /\ last.extractions = 1
    /\ last.id \notin DOMAIN sessions

(* The request of the call lacks a field its route requires. *)
MissingField(rec) ==
    \/ rec.kind = "login" /\ rec.mobile = ""
    \/ rec.kind = "otp" /\ (rec.id = NoId \/ rec.otp = "")
    \/ rec.kind \in {"scrape", "cancel"} /\ rec.id = NoId

(* The scraper was not invoked for the call. *)
NotInvoked(rec) ==
    /\ ~rec.wasLive /\ ~rec.res.success
    /\ rec.session = NoSession /\ rec.browser = NoSession /\ rec.closing = NoSession
    /\ rec.fills = 0 /\ rec.clicks = 0

(* C30 as stated: a request that lacks a required field is answered with  *)
(* status 400 (and only such a request is), and the scraper is not        *)
(* invoked for it.                                                        *)
C30_MissingFieldIs400 ==
    last.pc = "done" =>
        /\ MissingField(last) <=> last.res.status = 400
        /\ last.res.status = 400 => NotInvoked(last)

(* C30 amended: a request that lacks a required field is answered with    *)
(* status 400, or with 429 when the limiter of the login or submit-otp    *)
(* route rejects it before the validation, which happens only once the    *)
(* client has used up the route's allowance; 400 is given to no other     *)
(* request; in both cases the scraper is not invoked and the step that    *)
(* answers creates, changes and destroys no session, changes no browser   *)
(* and launches nothing.                                                  *)
C30_ValidateBeforeActing ==
    /\ [](last.pc = "done" =>
             /\ MissingField(last) => last.res.status \in {400, 429}
             /\ last.res.status = 400 => MissingField(last)
             /\ last.res.status = 429 => last.kind \in {"login", "otp"}
             /\ last.res.status \in {400, 429} => NotInvoked(last))
    /\ [][/\ last'.res.status = 429 /\ hits' # hits /\ hits' # NoHits =>
                /\ last'.kind = "login" => hits.login >= LoginMax
                /\ last'.kind = "otp" => hits.otp >= OtpMax
          /\ last'.res.status \in {400, 429} =>
                /\ sessions' = sessions
                /\ calls' = calls
                /\ DOMAIN objs' \subseteq DOMAIN objs
                /\ \A b \in DOMAIN objs' : objs'[b].state = objs[b].state
                /\ \A b \in Reachable(sessions, calls, IdleCall) :
                      b \in DOMAIN objs' /\ objs'[b] = objs[b]]_vars

(* C30 witness: submit-otp was called for a live session without an otp,  *)
(* within the allowance, and answered 400, the session still in the Store *)
(* with its browser open.                                                 *)
C30_Witness ==
    /\ last.kind = "otp" /\ last.id \in DOMAIN sessions /\ last.otp = ""
    /\ last.res.status = 400
    /\ hits.otp <= OtpMax
    /\ objs[sessions[last.id]].state = "open"

(* The browsers that were launched, have had no close() called on them,   *)
(* are the browser of no Store entry and are held by no call in flight.   *)
Orphans ==
    {b \in DOMAIN objs :
        /\ objs[b].state = "open"
        /\ \A k \in DOMAIN sessions : sessions[k] # b
        /\ b \notin Reachable(<< >>, calls, IdleCall)}

(* C33: every browser that was launched and is not yet closed is the      *)
(* browser of a session of the Store; read in the claim's favour, a       *)
(* browser still held by the call in flight that launched or obtained it  *)
(* is not counted.                                                        *)
C33_NoOrphanBrowser == Orphans = {}

(* C34: a scrapeOrders call that scrolled, extracted or went on to        *)
(* release its session did so on a session whose login returned           *)
(* needsOtp:false or whose OTP a successful submitOTP verified.           *)
C34_ExtractionGatedOnLogin ==
    \A x \in LiveScrapes :
        x.rounds > 0 \/ x.extractions > 0 \/ x.pc = "close" => objs[x.session].verified

IsIsoDate(d) ==
    /\ Len(d) = 10
    /\ d[5] = "-" /\ d[8] = "-"
    /\ \A k \in {1, 2, 3, 4, 6, 7, 9, 10} : IsDigit(d[k])

IsPositive(amount) == ~amount.isNull /\ (amount.int > 0 \/ amount.frac # << >>)

RECURSIVE Concat(_)
Concat(ss) == IF ss = << >> THEN << >> ELSE Head(ss) \o Concat(Tail(ss))

(* The records are those of the elements, in the order of the elements. *)
InDocumentOrder ==
    page.orders = Concat([k \in DOMAIN page.elements |-> page.extracted[k].pushed])

(* C35 as stated: every record returned has a strictly positive amount, a *)
(* non-empty ISO date and a non-empty restaurant name that is never       *)
(* "Unknown", and the records are in the document order of their          *)
(* elements.                                                              *)
C35_RecordsWellFormed ==
    Extracted =>
        /\ \A k \in DOMAIN page.orders :
              /\ IsPositive(page.orders[k].amount)
              /\ IsIsoDate(page.orders[k].date)
              /\ page.orders[k].restaurant # << >>
              /\ page.orders[k].restaurant # Unknown
        /\ InDocumentOrder

(* C35 amended: every record returned has a strictly positive amount, a   *)
(* non-empty ISO date and a non-empty restaurant name, which reads        *)
(* "Unknown" only when the first non-blank line of its element does, and  *)
(* the records are in the document order of their elements.               *)
C35_RecordsWellFormedOrNamedUnknown ==
    Extracted =>
        /\ \A k \in DOMAIN page.elements :
              \A j \in DOMAIN page.extracted[k].pushed :
                 LET o == page.extracted[k].pushed[j]
                 IN  /\ IsPositive(o.amount)
                     /\ IsIsoDate(o.date)
                     /\ o.restaurant # << >>
                     /\ o.restaurant = Unknown => page.elements[k].heading.name = Unknown
        /\ InDocumentOrder

(* C35 witness: a document of two elements gave two different records,    *)
(* the first element's first.                                             *)
C35_Witness ==
    /\ Extracted
    /\ Len(page.orders) = 2
    /\ page.orders[1] # page.orders[2]
    /\ page.orders[1] = page.extracted[1].pushed[1]
    /\ IsPositive(page.orders[1].amount) /\ IsIsoDate(page.orders[1].date)

--------------------------------------------------------------------------
(* The analysis routes of server.js: POST /api/analyze and                *)
(* POST /api/analyze-range.  An order is a date string and an amount in   *)
(* rupees; offset is the minutes the zone of the server is ahead of UTC.  *)

InvalidDate == [valid |-> FALSE, y |-> 0, m |-> 0, d |-> 0]

(* parseDate(dateStr) = new Date(dateStr) for a date-only ISO string: the *)
(* midnight in UTC of that day; an Invalid Date for any other string of   *)
(* the inputs below.                                                      *)
parseDate(dateStr) ==
    IF /\ Len(dateStr) = 10
       /\ dateStr[5] = "-" /\ dateStr[8] = "-"
       /\ \A k \in {1, 2, 3, 4, 6, 7, 9, 10} : IsDigit(dateStr[k])
    THEN LET y == digitsValue(SubSeq(dateStr, 1, 4), 0)
             m == digitsValue(SubSeq(dateStr, 6, 7), 0)
             d == digitsValue(SubSeq(dateStr, 9, 10), 0)
         IN  IF m \in 1..12 /\ d >= 1 /\ d <= DaysInMonth(y, m)
             THEN [valid |-> TRUE, y |-> y, m |-> m, d |-> d]
             ELSE InvalidDate
    ELSE InvalidDate

(* The place of a valid Date in time, for comparisons. *)
valueOf(date) == (date.y * 12 + date.m) * 31 + date.d

(* a >= b and a <= b on Dates: false when either is invalid. *)
NotBefore(a, b) == a.valid /\ b.valid /\ valueOf(a) >= valueOf(b)

NotAfter(a, b) == a.valid /\ b.valid /\ valueOf(a) <= valueOf(b)

(* The day before a calendar day. *)
dayBefore(date) ==
    LET y == IF date.d = 1 /\ date.m = 1 THEN date.y - 1 ELSE date.y
        m == IF date.d = 1 THEN (IF date.m = 1 THEN 12 ELSE date.m - 1) ELSE date.m
        d == IF date.d = 1 THEN DaysInMonth(y, m) ELSE date.d - 1
    IN  [valid |-> TRUE, y |-> y, m |-> m, d |-> d]

(* The calendar day of a UTC midnight in the zone of the server, as       *)
(* getFullYear() and getMonth() see it.                                   *)
localDate(date, offset) == IF offset < 0 THEN dayBefore(date) ELSE date

NaNKey == <<"N", "a", "N", "-", "N", "a", "N">>

(* `${date.getFullYear()}-${String(date.getMonth() + 1).padStart(2, '0')}` *)
monthKey(date, offset) ==
    IF ~date.valid THEN NaNKey
    ELSE pad(localDate(date, offset).y, 4) \o <<"-">> \o pad(localDate(date, offset).m, 2)

RECURSIVE monthlyFold(_, _, _)
(* orders.forEach of calculateMonthlySpend over the orders left. *)
monthlyFold(orders, offset, monthlyData) ==
    IF orders = << >> THEN monthlyData
    ELSE LET order == Head(orders)
             key == monthKey(parseDate(order.date), offset)
         IN  IF order.date # << >> /\ order.amount # 0
             THEN monthlyFold(Tail(orders), offset,
                              [k \in DOMAIN monthlyData \cup {key} |->
                                  (IF k \in DOMAIN monthlyData THEN monthlyData[k] ELSE 0)
                                      + (IF k = key THEN order.amount ELSE 0)])
             ELSE monthlyFold(Tail(orders), offset, monthlyData)

calculateMonthlySpend(orders, offset) == monthlyFold(orders, offset, << >>)

RECURSIVE sumAmounts(_)
(* orders.reduce((sum, order) => sum + parseFloat(order.amount), 0) *)
sumAmounts(orders) ==
    IF orders = << >> THEN 0 ELSE Head(orders).amount + sumAmounts(Tail(orders))

inRange_exclusiveEnd(order, startDate, endDate) ==
    /\ NotBefore(parseDate(order.date), parseDate(startDate))
    /\ NotAfter(parseDate(order.date), parseDate(endDate))
    /\ parseDate(order.date) # parseDate(endDate)

(* orderDate >= start && orderDate <= end *)
inRange(order, startDate, endDate) ==
    /\ NotBefore(parseDate(order.date), parseDate(startDate))
    /\ NotAfter(parseDate(order.date), parseDate(endDate))

calculateSpendInRange(orders, startDate, endDate) ==
    sumAmounts(SelectSeq(orders, LAMBDA order : inRange(order, startDate, endDate)))

RECURSIVE digitsOf(_)
(* The decimal digits of n. *)
digitsOf(n) == IF n < 10 THEN <<Digits[n + 1]>> ELSE digitsOf(n \div 10) \o <<Digits[(n % 10) + 1]>>

(* (num / den).toFixed(2): the quotient rounded to hundredths. *)
toFixed2(num, den) ==
    LET h == (200 * num + den) \div (2 * den)
    IN  digitsOf(h \div 100) \o <<".">> \o pad(h % 100, 2)

RECURSIVE extreme(_, _, _)
(* The earliest (sign 1) or latest (sign 0) of the valid dates. *)
extreme(orders, sign, best) ==
    IF orders = << >> THEN best
    ELSE LET date == parseDate(Head(orders).date)
             better == \/ ~best.valid
                       \/ sign = 1 /\ valueOf(date) < valueOf(best)
                       \/ sign = 0 /\ valueOf(date) > valueOf(best)
         IN  extreme(Tail(orders), sign, IF date.valid /\ better THEN date ELSE best)

(* minDate.toISOString().split('T')[0] of a UTC midnight, null as empty. *)
isoDay(date) ==
    IF date.valid THEN pad(date.y, 4) \o <<"-">> \o pad(date.m, 2) \o <<"-">> \o pad(date.d, 2)
    ELSE << >>

NoAnalysis == [status |-> 0, totalSpend |-> << >>, monthlySpend |-> << >>,
               averageOrderValue |-> << >>, orderCount |-> 0,
               start |-> << >>, end |-> << >>]

(* The answer to a body whose orders field is missing or is no array. *)
BadRequestBody == [NoAnalysis EXCEPT !.status = 400]

(* The handler of POST /api/analyze. *)
analyze(orders, offset) ==
    [NoAnalysis EXCEPT
        !.status = 200,
        !.totalSpend = toFixed2(sumAmounts(orders), 1),
        !.monthlySpend = calculateMonthlySpend(orders, offset),
        !.averageOrderValue = IF Len(orders) > 0 THEN toFixed2(sumAmounts(orders), Len(orders))
                              ELSE toFixed2(0, 1),
        !.orderCount = Len(orders),
        !.start = isoDay(extreme(orders, 1, InvalidDate)),
        !.end = isoDay(extreme(orders, 0, InvalidDate))]

(* The handler of POST /api/analyze-range. *)
analyzeRange(orders, startDate, endDate, offset) ==
    IF startDate = << >> \/ endDate = << >>
    THEN [NoAnalysis EXCEPT !.status = 400]
    ELSE LET filteredOrders == SelectSeq(orders, LAMBDA order : inRange(order, startDate, endDate))
         IN  [NoAnalysis EXCEPT
                 !.status = 200,
                 !.totalSpend = toFixed2(calculateSpendInRange(orders, startDate, endDate), 1),
                 !.orderCount = Len(filteredOrders),
                 !.monthlySpend = calculateMonthlySpend(filteredOrders, offset),
                 !.start = startDate,
                 !.end = endDate]

(* The requests of the harness: up to MaxOrders orders, each with one of  *)
(* these date strings and amounts, and the bounds of the range.           *)
MaxOrders == 2

Day(y, m, d) == pad(y, 4) \o <<"-">> \o pad(m, 2) \o <<"-">> \o pad(d, 2)

OrderDates == {Day(2024, 1, 31), Day(2024, 2, 1), Day(2024, 2, 29), Day(2024, 3, 1),
               << >>, <<"s", "o", "o", "n">>}

Amounts == {0, 100, 250}

OrderRecords == [date : OrderDates, amount : Amounts]

OrderArrays == UNION {[1..n -> OrderRecords] : n \in 0..MaxOrders}

RangeDates == {Day(2024, 2, 1), Day(2024, 2, 29), << >>}

AnalysisInit ==
    /\ sessions = << >>
    /\ objs = << >>
    /\ calls = EmptyBag
    /\ last = IdleCall
    /\ page = NoPage
    /\ hits = NoHits
    /\ ui = NoUi
    /\ \E orders \in OrderArrays, offset \in Offsets, startDate \in RangeDates,
          endDate \in RangeDates, isArray \in BOOLEAN :
          /\ ~isArray => orders = << >>
          /\ report = [NoReport EXCEPT !.orders = orders, !.isArray = isArray,
                                       !.offset = offset, !.startDate = startDate,
                                       !.endDate = endDate]

postAnalyze ==
    /\ ~report.done
    /\ report' = [report EXCEPT !.done = TRUE, !.route = "analyze",
                                !.res = IF report.isArray
                                        THEN analyze(report.orders, report.offset)
                                        ELSE BadRequestBody]
    /\ UNCHANGED <<sessions, objs, calls, last, page, hits, ui>>

postAnalyzeRange ==
    /\ ~report.done
    /\ report' = [report EXCEPT !.done = TRUE, !.route = "analyze-range",
                                !.res = IF report.isArray
                                        THEN analyzeRange(report.orders, report.startDate,
                                                          report.endDate, report.offset)
                                        ELSE BadRequestBody]
    /\ UNCHANGED <<sessions, objs, calls, last, page, hits, ui>>

AnalysisNext == postAnalyze \/ postAnalyzeRange

AnalysisSpec == AnalysisInit /\ [][AnalysisNext]_vars

--------------------------------------------------------------------------
(* Properties of the analysis routes.                                     *)

Answered(route) == report.done /\ report.route = route /\ report.res.status = 200

(* A key of the form YYYY-MM. *)
IsMonthKey(k) ==
    /\ Len(k) = 7
    /\ k[5] = "-"
    /\ \A j \in {1, 2, 3, 4, 6, 7} : IsDigit(k[j])

(* The orders whose date string lies in calendar month k. *)
InMonth(orders, k) ==
    SelectSeq(orders, LAMBDA order : Len(order.date) >= 7 /\ SubSeq(order.date, 1, 7) = k)

(* C31: for every list of orders, every key of the monthlySpend map is a  *)
(* 4-digit year, a dash and a 2-digit month, and the value under key k is *)
(* the sum of the amounts of exactly the orders whose date string lies in *)
(* calendar month k.                                                      *)
C31_MonthlyBuckets ==
    Answered("analyze") =>
        \A k \in DOMAIN report.res.monthlySpend :
            /\ IsMonthKey(k)
            /\ report.res.monthlySpend[k] = sumAmounts(InMonth(report.orders, k))

(* The number of the day a date string names, 0 when it names none. *)
DayNumber(dateStr) ==
    IF IsIsoDate(dateStr)
    THEN digitsValue(SubSeq(dateStr, 1, 4) \o SubSeq(dateStr, 6, 7) \o SubSeq(dateStr, 9, 10), 0)
    ELSE 0

(* The orders dated from startDate to endDate, both days included. *)
Within(orders, startDate, endDate) ==
    SelectSeq(orders, LAMBDA order :
        /\ DayNumber(order.date) # 0
        /\ DayNumber(startDate) <= DayNumber(order.date)
        /\ DayNumber(order.date) <= DayNumber(endDate))

(* C32: date-range analysis is inclusive at both ends: the orders counted *)
(* in orderCount of /api/analyze-range are exactly those dated on or      *)
(* after startDate and on or before endDate, an order dated on startDate  *)
(* or on endDate included, and totalSpend is the sum of the amounts of    *)
(* exactly the orders counted.                                            *)
C32_RangeInclusive ==
    Answered("analyze-range") =>
        LET counted == Within(report.orders, report.startDate, report.endDate)
        IN  /\ report.res.orderCount = Len(counted)
            /\ report.res.totalSpend = toFixed2(sumAmounts(counted), 1)

(* An order dated on endDate is counted, the one dated the day after is   *)
(* not.                                                                   *)
C32_Witness ==
    /\ Answered("analyze-range")
    /\ report.startDate = Day(2024, 2, 1)
    /\ report.endDate = Day(2024, 2, 29)
    /\ report.orders = <<[date |-> Day(2024, 2, 29), amount |-> 100],
                         [date |-> Day(2024, 3, 1), amount |-> 250]>>
    /\ report.res.orderCount = 1
    /\ report.res.totalSpend = <<"1", "0", "0", ".", "0", "0">>

RECURSIVE sumValues(_, _)
(* The sum of the values of a map over the keys given. *)
sumValues(map, keys) ==
    IF keys = {} THEN 0
    ELSE LET k == CHOOSE x \in keys : TRUE
         IN  map[k] + sumValues(map, keys \ {k})

(* C36: for every orders array sent to /api/analyze, the sum of all       *)
(* values of the returned monthlySpend equals the returned totalSpend,    *)
(* and averageOrderValue is totalSpend divided by orderCount, 0 when the  *)
(* array is empty.                                                        *)
C36_TotalsAgree ==
    Answered("analyze") =>
        /\ report.res.totalSpend =
               toFixed2(sumValues(report.res.monthlySpend, DOMAIN report.res.monthlySpend), 1)
        /\ report.res.orderCount = Len(report.orders)
        /\ report.res.averageOrderValue =
               IF report.res.orderCount = 0 THEN <<"0", ".", "0", "0">>
               ELSE toFixed2(sumAmounts(report.orders), report.res.orderCount)

--------------------------------------------------------------------------
(* The page of the frontend (App): the state hooks that steer the login   *)
(* flow, and the requests it has sent that are not answered yet.  Each    *)
(* action is one handler up to its await, or the rest of a handler from   *)
(* the answer of its request on.  A button with disabled={loading} can be *)
(* clicked only while loading is false, and only in the step that renders *)
(* it.                                                                    *)

MaxRequests == 3

Request(kind, sid) == [kind |-> kind, sid |-> sid]

Pending(kind) == {r \in BagToSet(ui.pending) : r.kind = kind}

CanSend == BagCardinality(ui.pending) < MaxRequests

Sent(r) == ui.pending (+) SetToBag({r})

Without(r) == ui.pending (-) SetToBag({r})

FrontFrame == UNCHANGED <<sessions, objs, calls, last, page, hits, report>>

(* handleTextInput / handleFileUpload: an array of orders, maybe empty. *)
handleTextInput ==
    /\ \E has \in BOOLEAN : ui' = [ui EXCEPT !.hasOrders = has, !.error = FALSE]
    /\ FrontFrame

loadSampleData ==
    /\ ui' = [ui EXCEPT !.hasOrders = TRUE, !.error = FALSE]
    /\ FrontFrame

(* onChange of the two date inputs. *)
setDates ==
    /\ ui' = [ui EXCEPT !.hasDates = TRUE]
    /\ FrontFrame

analyzeOrders ==
    /\ ~ui.loading
    /\ IF ~ui.hasOrders
       THEN ui' = [ui EXCEPT !.error = TRUE]
       ELSE /\ CanSend
            /\ ui' = [ui EXCEPT !.loading = TRUE, !.error = FALSE,
                                !.pending = Sent(Request("analyze", ""))]
    /\ FrontFrame

analyzeRangeClick ==
    /\ ~ui.loading
    /\ IF ~ui.hasOrders \/ ~ui.hasDates
       THEN ui' = [ui EXCEPT !.error = TRUE]
       ELSE /\ CanSend
            /\ ui' = [ui EXCEPT !.loading = TRUE, !.error = FALSE,
                                !.pending = Sent(Request("analyze-range", ""))]
    /\ FrontFrame

(* The rest of analyzeOrders / analyzeRange: the answer or the catch,     *)
(* then the finally.                                                      *)
analysisAnswer ==
    /\ \E r \in Pending("analyze") \cup Pending("analyze-range"), ok \in BOOLEAN :
          ui' = [ui EXCEPT !.pending = Without(r), !.loading = FALSE,
                           !.error = IF ok THEN ui.error ELSE TRUE]
    /\ FrontFrame

handleSwiggyLogin ==
    /\ ui.loginStep = "initial"
    /\ ~ui.loading
    /\ \E valid \in BOOLEAN :
          IF ~valid
          THEN ui' = [ui EXCEPT !.error = TRUE]
          ELSE /\ CanSend
               /\ ui.issued # SessionIds
               /\ ui' = [ui EXCEPT !.loading = TRUE, !.error = FALSE,
                                   !.pending = Sent(Request("login", ""))]
    /\ FrontFrame

(* The first lines of handleScrapeOrders(sid), up to its request. *)
scrapeSent(state, r, sid) ==
    [state EXCEPT !.loading = TRUE, !.error = FALSE,
                  !.pending = Without(r) (+) SetToBag({Request("scrape", sid)})]

(* The rest of handleSwiggyLogin from the answer of /api/swiggy/login. *)
loginAnswer ==
    /\ \E r \in Pending("login"), outcome \in {"needsOtp", "loggedIn", "failed"} :
          CASE outcome = "needsOtp" ->
                 \E sid \in SessionIds \ ui.issued :
                    ui' = [ui EXCEPT !.sessionId = sid, !.issued = @ \cup {sid},
                                     !.loginStep = "otp", !.loading = FALSE,
                                     !.pending = Without(r)]
            [] outcome = "loggedIn" ->
                 \E sid \in SessionIds \ ui.issued :
                    ui' = scrapeSent([ui EXCEPT !.sessionId = sid, !.issued = @ \cup {sid},
                                                !.loginStep = "scraping"], r, sid)
            [] outcome = "failed" ->
                 ui' = [ui EXCEPT !.error = TRUE, !.loading = FALSE,
                                  !.pending = Without(r)]
    /\ FrontFrame

handleSubmitOTP ==
    /\ ui.loginStep = "otp"
    /\ ~ui.loading
    /\ \E valid \in BOOLEAN :
          IF ~valid
          THEN ui' = [ui EXCEPT !.error = TRUE]
          ELSE /\ CanSend
               /\ ui' = [ui EXCEPT !.loading = TRUE, !.error = FALSE,
                                   !.pending = Sent(Request("otp", ui.sessionId))]
    /\ FrontFrame

(* The rest of handleSubmitOTP from the answer of /api/swiggy/submit-otp. *)
otpAnswer ==
    /\ \E r \in Pending("otp"), success \in BOOLEAN :
          IF success
          THEN ui' = scrapeSent([ui EXCEPT !.loginStep = "scraping"], r, r.sid)
          ELSE ui' = [ui EXCEPT !.error = TRUE, !.loading = FALSE,
                                !.pending = Without(r)]
    /\ FrontFrame

(* The else branch and the catch of handleScrapeOrders. *)
scrapeFailed(state) == [state EXCEPT !.error = TRUE]

(* The rest of handleScrapeOrders from the answer of                      *)
(* /api/swiggy/scrape-orders, and the finally of the handler that called  *)
(* it.                                                                    *)
scrapeAnswer ==
    /\ \E r \in Pending("scrape"), success \in BOOLEAN, has \in BOOLEAN :
          /\ ~success => ~has
          /\ ui' = [(IF success
                     THEN [ui EXCEPT !.hasOrders = has, !.loginStep = "initial",
                                     !.sessionId = ""]
                     ELSE scrapeFailed(ui))
                    EXCEPT !.loading = FALSE, !.pending = Without(r)]
    /\ FrontFrame

(* The last lines of handleCancelLogin. *)
cancelDone(state) == [state EXCEPT !.loginStep = "initial", !.sessionId = "", !.error = FALSE]

handleCancelLogin ==
    /\ ui.loginStep = "otp"
    /\ ~ui.loading
    /\ IF ui.sessionId # ""
       THEN /\ CanSend
            /\ ui' = [ui EXCEPT !.pending = Sent(Request("cancel", ui.sessionId))]
       ELSE ui' = cancelDone(ui)
    /\ FrontFrame

(* The rest of handleCancelLogin from the answer of                       *)
(* /api/swiggy/cancel-session, or from its failure.                       *)
cancelAnswer ==
    /\ \E r \in Pending("cancel") :
          ui' = [cancelDone(ui) EXCEPT !.pending = Without(r)]
    /\ FrontFrame

FrontInit ==
    /\ sessions = << >>
    /\ objs = << >>
    /\ calls = EmptyBag
    /\ last = IdleCall
    /\ page = NoPage
    /\ hits = NoHits
    /\ report = NoReport
    /\ ui = NoUi

FrontNext ==
    \/ handleTextInput
    \/ loadSampleData
    \/ setDates
    \/ analyzeOrders
    \/ analyzeRangeClick
    \/ analysisAnswer
    \/ handleSwiggyLogin
    \/ loginAnswer
    \/ handleSubmitOTP
    \/ otpAnswer
    \/ scrapeAnswer
    \/ handleCancelLogin
    \/ cancelAnswer

FrontSpec == FrontInit /\ [][FrontNext]_vars

(* C37: loginStep never stays in 'scraping' once the scrape-orders        *)
(* request has completed: whether the answer was a success, a failure or  *)
(* a network error, the page is then in a step that offers a new login or *)
(* a cancel.                                                              *)
C37_ScrapingEnds ==
    Pending("scrape") = {} => ui.loginStep \in {"initial", "otp"}

SwiggyKinds == {"login", "otp", "scrape", "cancel"}

(* The Swiggy requests in flight that carry session id sid. *)
InFlightFor(sid) ==
    BagCardinality([r \in {q \in BagToSet(ui.pending) : q.kind \in SwiggyKinds /\ q.sid = sid}
                       |-> CopiesIn(r, ui.pending)])

(* C38: the frontend never has two Swiggy requests for the same sessionId *)
(* in flight at once: while a login, submit-otp or scrape-orders request  *)
(* is pending loading is true (so Send OTP, Verify OTP and Cancel are     *)
(* disabled), and loading is false whenever no request is pending.        *)
C38_OneRequestPerSession ==
    /\ \A sid \in SessionIds : InFlightFor(sid) <= 1
    /\ Pending("login") \cup Pending("otp") \cup Pending("scrape") # {} => ui.loading
    /\ ui.pending = EmptyBag => ~ui.loading

====
